---- MODULE Spec2Model ----
(***************************************************************************)
(* Model of antokel_cloud: the EC2 user-data renderer (ContainerFleet),     *)
(* Instance, Volume and find_by_name, the S3 object store with its text    *)
(* streaming, and the AntokelAws entry point.                              *)
(*                                                                         *)
(* A Python str is a sequence of one-character strings; Optional[str] is   *)
(* a record [some, v]; a dict is a sequence of [k, v] records with         *)
(* pairwise distinct keys, in insertion order.                             *)
(***************************************************************************)
EXTENDS Integers, Sequences, FiniteSets, TLC

VARIABLES
  fleet,     \* the ContainerFleet object: ecr, os, env, cmd, tag, include_aws_env, ec2
  sessions,  \* the EC2 objects: id -> [region, access_key, secret_key]
  ret,       \* outcome of the last call on the renderer
  prev,      \* outcome of the call on the renderer before the last one
  instance,  \* the Instance object: id, name, machine, mode, key_pair, ...
  calls,     \* the calls the EC2 client has received, oldest first
  out,       \* the last call on an Instance, a Volume or S3: the object before
             \* the call, the arguments, the outcome, the client calls it issued
  aws,       \* the AntokelAws object: region, access_key, secret_key
  environ,   \* os.environ: variable name -> value, None when not set
  s3,        \* the S3 object: bucket, prefix, the keyword arguments of its client
  objects,   \* the bucket: key -> bytes
  listing,   \* the pages describe_instances answers with, in their order
  frame      \* the call in progress (a stream_lines generator, the loop of
             \* find_by_name): its position and its local variables

vars ==
  <<fleet, sessions, ret, prev, instance, calls, out, aws, environ, s3, objects, listing, frame>>

awsVars == <<aws, environ>>

s3Vars == <<s3, objects>>

pageVars == <<listing, frame>>

(***************************************************************************)
(* Strings                                                                 *)
(***************************************************************************)
Chars(s) == [i \in 1..Len(s) |-> SubSeq(s, i, i)]

Range(f) == {f[i] : i \in DOMAIN f}

\* the backquote character, which a TLA+ string literal cannot hold
Backtick == "<backtick>"

None == [some |-> FALSE, v |-> <<>>]

Some(s) == [some |-> TRUE, v |-> s]

\* Python truthiness of an Optional[str]: None and "" are both falsy.
Truthy(o) == o.some /\ o.v # <<>>

\* `x or ""`
OrEmpty(o) == IF Truthy(o) THEN o.v ELSE <<>>

\* str.isspace() on the characters the model uses
IsSpace(c) == c \in {" ", "\t", "\n", "\r", "\f"}

RECURSIVE LStrip(_)
LStrip(s) == IF s # <<>> /\ IsSpace(Head(s)) THEN LStrip(Tail(s)) ELSE s

RECURSIVE RStrip(_)
RStrip(s) ==
  IF s # <<>> /\ IsSpace(s[Len(s)]) THEN RStrip(SubSeq(s, 1, Len(s) - 1)) ELSE s

\* str.strip()
Strip(s) == RStrip(LStrip(s))

\* sep.join(parts)
RECURSIVE Join(_, _)
Join(parts, sep) ==
  IF parts = <<>> THEN <<>>
  ELSE IF Len(parts) = 1 THEN parts[1]
  ELSE parts[1] \o sep \o Join(Tail(parts), sep)

\* index of the first / last occurrence of character c in s, 0 when absent
FirstIndex(s, c) ==
  IF c \in Range(s) THEN CHOOSE i \in 1..Len(s) : s[i] = c /\ \A j \in 1..(i - 1) : s[j] # c
  ELSE 0

LastIndex(s, c) ==
  IF c \in Range(s) THEN CHOOSE i \in 1..Len(s) : s[i] = c /\ \A j \in (i + 1)..Len(s) : s[j] # c
  ELSE 0

(***************************************************************************)
(* shlex.quote, as called by BaseUserData._shell_quote                     *)
(***************************************************************************)
\* re.compile(r'[^\w@%+=:,./-]', re.ASCII): the characters that need no quoting
WordChars == Range(Chars("abcdefghijklmnopqrstuvwxyzABCDEFGHIJKLMNOPQRSTUVWXYZ0123456789_"))

SafeChars == WordChars \cup Range(Chars("@%+=:,./-"))

\* s.replace("'", "'\"'\"'")
RECURSIVE EscapeSingleQuotes(_)
EscapeSingleQuotes(s) ==
  IF s = <<>> THEN <<>>
  ELSE (IF Head(s) = "'" THEN <<"'", "\"", "'", "\"", "'">> ELSE <<Head(s)>>)
       \o EscapeSingleQuotes(Tail(s))

\* a quoting that wraps in single quotes and forgets the embedded ones
ShellQuote_NoEscape(v) ==
  IF v = <<>> THEN <<"'", "'">>
  ELSE IF \A i \in 1..Len(v) : v[i] \in SafeChars THEN v
  ELSE <<"'">> \o v \o <<"'">>

ShellQuote(v) ==
  IF v = <<>> THEN <<"'", "'">>
  ELSE IF \A i \in 1..Len(v) : v[i] \in SafeChars THEN v
  ELSE <<"'">> \o EscapeSingleQuotes(v) \o <<"'">>

(***************************************************************************)
(* How a POSIX shell reads a command line: quote removal, word splitting   *)
(* and the places where it expands ($name, `command`).  This is the        *)
(* reader of the rendered script, used to state what the script means.     *)
(***************************************************************************)
ShellBlank == {" ", "\t"}

\* unquoted, these end the simple command
ShellControl == Range(Chars("|&;<>()")) \cup {"\n"}

\* after a $ that is not inside single quotes, these start an expansion
ExpansionStart == WordChars \cup Range(Chars("{($@*#?-!"))

ShellStart ==
  [mode |-> "n", words |-> <<>>, cur |-> <<>>, inword |-> FALSE,
   expanded |-> FALSE, simple |-> TRUE]

\* one character c (followed by nxt, "" at the end) read in state st: the new
\* state and the number of characters consumed
ShellStep(st, c, nxt) ==
  LET put(ch) == [st EXCEPT !.cur = Append(@, ch), !.inword = TRUE]
      brk == [st EXCEPT !.words = IF st.inword THEN Append(@, st.cur) ELSE @,
                        !.cur = <<>>, !.inword = FALSE]
      expands == c = Backtick \/ (c = "$" /\ nxt \in ExpansionStart)
      one(t) == [st |-> t, n |-> 1]
      two(t) == [st |-> t, n |-> 2]
  IN CASE st.mode = "s" /\ c = "'" -> one([st EXCEPT !.mode = "n"])
       [] st.mode = "s" /\ c # "'" -> one(put(c))
       [] st.mode = "d" /\ c = "\"" -> one([st EXCEPT !.mode = "n"])
       [] st.mode = "d" /\ c = "\\" /\ nxt \in {"$", Backtick, "\"", "\\"} -> two(put(nxt))
       [] st.mode = "d" /\ c = "\\" /\ nxt = "\n" -> two(st)
       [] st.mode = "d" /\ c # "\\" /\ expands -> one([put(c) EXCEPT !.expanded = TRUE])
       [] st.mode = "n" /\ c \in ShellBlank -> one(brk)
       [] st.mode = "n" /\ c \in ShellControl -> one([brk EXCEPT !.simple = FALSE])
       [] st.mode = "n" /\ c = "'" -> one([st EXCEPT !.mode = "s", !.inword = TRUE])
       [] st.mode = "n" /\ c = "\"" -> one([st EXCEPT !.mode = "d", !.inword = TRUE])
       [] st.mode = "n" /\ c = "\\" /\ nxt = "\n" -> two(st)
       [] st.mode = "n" /\ c = "\\" /\ nxt \notin {"\n", ""} -> two(put(nxt))
       [] st.mode = "n" /\ c # "\\" /\ expands -> one([put(c) EXCEPT !.expanded = TRUE])
       [] OTHER -> one(put(c))

\* at most k steps of reading s from position i in state st: the position and
\* the state reached
RECURSIVE ShellRun(_, _, _, _)
ShellRun(s, i, st, k) ==
  IF i > Len(s) \/ k = 0 THEN [i |-> i, st |-> st]
  ELSE
    LET r == ShellStep(st, s[i], IF i < Len(s) THEN s[i + 1] ELSE "")
    IN ShellRun(s, i + r.n, r.st, k - 1)

\* s read to its end, sixteen steps at a time
RECURSIVE ShellScan(_, _, _)
ShellScan(s, i, st) ==
  IF i > Len(s) THEN
    [ok |-> st.mode = "n",
     words |-> IF st.inword THEN Append(st.words, st.cur) ELSE st.words,
     expanded |-> st.expanded,
     simple |-> st.simple]
  ELSE
    LET r == ShellRun(s, i, st, 16)
    IN ShellScan(s, r.i, r.st)

ShellParse(s) == ShellScan(s, 1, ShellStart)

\* the line is one simple command whose words are exactly ws, nothing expanded
ReadsBackAs(s, ws) ==
  LET p == ShellParse(s)
  IN p.ok /\ p.simple /\ ~p.expanded /\ p.words = ws


(***************************************************************************)
(* BaseUserData                                                            *)
(***************************************************************************)
NoEc2 == 0

AwsRuntimeCredentials(region, access_key, secret_key) ==
  [region |-> region, access_key |-> access_key, secret_key |-> secret_key]

\* image.split("/", 1)[0]
ParseEcrRegistry(image) ==
  IF FirstIndex(image, "/") = 0 THEN image
  ELSE SubSeq(image, 1, FirstIndex(image, "/") - 1)

AwsCreds(self, ss) ==
  IF self.ec2 = NoEc2 THEN AwsRuntimeCredentials(None, None, None)
  ELSE AwsRuntimeCredentials(ss[self.ec2].region, ss[self.ec2].access_key,
                             ss[self.ec2].secret_key)

\* bind() keeping the session the renderer was first given
Bind_KeepFirst(self, ec2) == IF self.ec2 = NoEc2 THEN [self EXCEPT !.ec2 = ec2] ELSE self

\* BaseUserData.bind: the renderer after the call, which is also what it returns
Bind(self, ec2) == [self EXCEPT !.ec2 = ec2]

(***************************************************************************)
(* ContainerFleet                                                          *)
(***************************************************************************)
OsFamilies ==
  {"amazon_linux", "debian", "ubuntu", "red_hat", "suse_linux", "windows", "macos"}

EmptyDict == <<>>

Keys(d) == {d[i].k : i \in DOMAIN d}

\* dict.setdefault(key, value)
SetDefault(d, key, value) ==
  IF key \in Keys(d) THEN d ELSE Append(d, [k |-> key, v |-> value])

\* ContainerFleet.__init__: `env or {}` turns a missing (or empty) env into {}
ContainerFleet(ecrA, osA, envA, cmdA, tagA, includeA, ec2A) ==
  [ecr |-> ecrA, os |-> osA,
   env |-> IF envA.some /\ envA.v # <<>> THEN envA.v ELSE EmptyDict,
   cmd |-> cmdA, tag |-> tagA, include_aws_env |-> includeA, ec2 |-> ec2A]

\* self.ecr.rsplit("/", 1)[-1]
LastSegment(s) == SubSeq(s, LastIndex(s, "/") + 1, Len(s))

\* `":" in self.ecr`: a colon anywhere, a registry port included, counts as a tag
Image_AnyColon(self) ==
  IF ":" \in Range(self.ecr) THEN self.ecr
  ELSE self.ecr \o <<":">> \o self.tag

Image(self) ==
  IF ":" \in Range(LastSegment(self.ecr)) THEN self.ecr
  ELSE self.ecr \o <<":">> \o self.tag

\* a final else branch that installs with apt: no family is refused
SupportedOs_AptFallback(o) == o \in OsFamilies

\* the apt branch tests `self.os == "ubuntu"` only
SupportedOs_UbuntuOnly(o) == o \in {"amazon_linux", "red_hat", "ubuntu"}

SupportedOs(o) == o \in {"amazon_linux", "red_hat", "ubuntu", "debian"}

YumCommands ==
  Join(<<Chars("yum update -y"),
         Chars("yum install -y docker aws-cli"),
         Chars("service docker start"),
         Chars("usermod -a -G docker ec2-user")>>, <<"\n">>)

AptCommands ==
  Join(<<Chars("apt-get update -y"),
         Chars("apt-get install -y docker.io awscli"),
         Chars("systemctl enable docker"),
         Chars("systemctl start docker"),
         Chars("usermod -a -G docker ubuntu || true")>>, <<"\n">>)

\* the yum-family group-add given the `|| true` of the apt-family one
Install_YumTolerant(o) ==
  IF o = "amazon_linux" \/ o = "red_hat" THEN YumCommands \o Chars(" || true")
  ELSE IF o \in {"ubuntu", "debian"} THEN AptCommands
  ELSE <<>>

Install(o) ==
  IF o = "amazon_linux" \/ o = "red_hat" THEN YumCommands
  ELSE IF o \in {"ubuntu", "debian"} THEN AptCommands
  ELSE <<>>

AWS_REGION == Chars("AWS_REGION")

\* the variable AntokelAws falls back to for the region
AWS_DEFAULT_REGION == Chars("AWS_DEFAULT_REGION")

AWS_ACCESS_KEY_ID == Chars("AWS_ACCESS_KEY_ID")

AWS_SECRET_ACCESS_KEY == Chars("AWS_SECRET_ACCESS_KEY")

\* dict[key] = value: the entry is overwritten in place, or appended
SetItem(d, key, value) ==
  IF key \in Keys(d)
  THEN [i \in DOMAIN d |-> IF d[i].k = key THEN [k |-> key, v |-> value] ELSE d[i]]
  ELSE Append(d, [k |-> key, v |-> value])

\* run_env[key] = value in place of setdefault: the credentials overwrite the caller
RunEnv_Overwrite(self, creds) ==
  LET e0 == self.env
      e1 == IF Truthy(creds.region) THEN SetItem(e0, AWS_REGION, creds.region.v) ELSE e0
      e2 == IF Truthy(creds.access_key)
            THEN SetItem(e1, AWS_ACCESS_KEY_ID, creds.access_key.v) ELSE e1
      e3 == IF Truthy(creds.secret_key)
            THEN SetItem(e2, AWS_SECRET_ACCESS_KEY, creds.secret_key.v) ELSE e2
  IN IF self.include_aws_env THEN e3 ELSE e0

\* `is not None` in place of truthiness: an empty credential is injected too
RunEnv_NotNone(self, creds) ==
  LET e0 == self.env
      e1 == IF creds.region.some THEN SetDefault(e0, AWS_REGION, creds.region.v) ELSE e0
      e2 == IF creds.access_key.some
            THEN SetDefault(e1, AWS_ACCESS_KEY_ID, creds.access_key.v) ELSE e1
      e3 == IF creds.secret_key.some
            THEN SetDefault(e2, AWS_SECRET_ACCESS_KEY, creds.secret_key.v) ELSE e2
  IN IF self.include_aws_env THEN e3 ELSE e0

\* the two keys injected before the region
RunEnv_KeysBeforeRegion(self, creds) ==
  LET e0 == self.env
      e1 == IF Truthy(creds.access_key)
            THEN SetDefault(e0, AWS_ACCESS_KEY_ID, creds.access_key.v) ELSE e0
      e2 == IF Truthy(creds.secret_key)
            THEN SetDefault(e1, AWS_SECRET_ACCESS_KEY, creds.secret_key.v) ELSE e1
      e3 == IF Truthy(creds.region) THEN SetDefault(e2, AWS_REGION, creds.region.v) ELSE e2
  IN IF self.include_aws_env THEN e3 ELSE e0

\* run_env: a copy of env, then setdefault for every truthy credential
RunEnv(self, creds) ==
  LET e0 == self.env
      e1 == IF Truthy(creds.region) THEN SetDefault(e0, AWS_REGION, creds.region.v) ELSE e0
      e2 == IF Truthy(creds.access_key)
            THEN SetDefault(e1, AWS_ACCESS_KEY_ID, creds.access_key.v) ELSE e1
      e3 == IF Truthy(creds.secret_key)
            THEN SetDefault(e2, AWS_SECRET_ACCESS_KEY, creds.secret_key.v) ELSE e2
  IN IF self.include_aws_env THEN e3 ELSE e0

EnvFlag(kv) == <<"-", "e", " ">> \o ShellQuote(kv.k) \o <<"=">> \o ShellQuote(kv.v)

EnvFlags(run_env) ==
  IF run_env # EmptyDict
  THEN Join([i \in DOMAIN run_env |-> EnvFlag(run_env[i])], <<" ">>)
  ELSE <<>>

\* the fixed texts of the login command, the run command and the script template
GetLoginPassword == Chars("aws ecr get-login-password --region ")

PipeToDockerLogin == Chars(" | docker login --username AWS --password-stdin ")

ClearEntrypoint == Chars("--entrypoint ''")

DockerRunOpening == Chars("docker run -d --restart=always ")

ScriptOpening == Chars("#!/bin/bash\nset -euo pipefail\n\n")

ScriptLogin == Chars("\n\n# Authenticate to ECR and pull the image\nsu - ec2-user -c \"")

ScriptPull == Chars("\"\nsu - ec2-user -c \"docker pull ")

ScriptRun == Chars("\"\n\n# Run the container in detached mode\nsu - ec2-user -c \"")

ScriptClosing == Chars("\"\n")

\* the credential values written into the command as they are
LoginCmd_Unquoted(region, access, secret, registry) ==
  AWS_REGION \o <<"=">> \o region \o <<" ">>
  \o AWS_ACCESS_KEY_ID \o <<"=">> \o access \o <<" ">>
  \o AWS_SECRET_ACCESS_KEY \o <<"=">> \o secret \o <<" ">>
  \o GetLoginPassword \o region
  \o PipeToDockerLogin \o ShellQuote(registry)

LoginCmd(region, access, secret, registry) ==
  AWS_REGION \o <<"=">> \o ShellQuote(region) \o <<" ">>
  \o AWS_ACCESS_KEY_ID \o <<"=">> \o ShellQuote(access) \o <<" ">>
  \o AWS_SECRET_ACCESS_KEY \o <<"=">> \o ShellQuote(secret) \o <<" ">>
  \o GetLoginPassword \o ShellQuote(region)
  \o PipeToDockerLogin \o ShellQuote(registry)

EntrypointFlag(self) == IF self.cmd # <<>> THEN ClearEntrypoint ELSE <<>>

\* cmd passed through the quoting like the image
CmdPart_Quoted(self) == IF self.cmd # <<>> THEN <<" ">> \o ShellQuote(self.cmd) ELSE <<>>

CmdPart(self) == IF self.cmd # <<>> THEN <<" ">> \o self.cmd ELSE <<>>

DockerRun(self, env_flags, image) ==
  Strip(DockerRunOpening \o EntrypointFlag(self) \o <<" ">>
        \o env_flags \o <<" ">> \o ShellQuote(image) \o CmdPart(self))

\* the closing line of the template followed by a blank line
Script_BlankLineAtEnd(install, login_cmd, image, docker_run) ==
  ScriptOpening \o install
  \o ScriptLogin
  \o login_cmd
  \o ScriptPull \o ShellQuote(image)
  \o ScriptRun
  \o docker_run \o Chars("\"\n\n")

Script(install, login_cmd, image, docker_run) ==
  ScriptOpening \o install
  \o ScriptLogin
  \o login_cmd
  \o ScriptPull \o ShellQuote(image)
  \o ScriptRun
  \o docker_run \o ScriptClosing

NoLocals ==
  [region |-> <<>>, access |-> <<>>, secret |-> <<>>, install |-> <<>>, image |-> <<>>,
   registry |-> <<>>, run_env |-> EmptyDict, env_flags |-> <<>>, login_cmd |-> <<>>,
   docker_run |-> <<>>]

NoError == [type |-> "", message |-> <<>>]

\* raise ValueError(f"Unsupported OS for ContainerFleet user-data: {self.os}")
UnsupportedOs(o) ==
  [type |-> "ValueError",
   message |-> <<"Unsupported OS for ContainerFleet user-data: ", o>>]

\* ContainerFleet.render: the outcome (returned script or raised error) and the
\* values of its local variables when it returns
RenderCall(self, ss) ==
  LET creds      == AwsCreds(self, ss)
      region     == OrEmpty(creds.region)
      access     == OrEmpty(creds.access_key)
      secret     == OrEmpty(creds.secret_key)
      install    == Install(self.os)
      image      == Image(self)
      registry   == ParseEcrRegistry(image)
      run_env    == RunEnv(self, creds)
      env_flags  == EnvFlags(run_env)
      login_cmd  == LoginCmd(region, access, secret, registry)
      docker_run == DockerRun(self, env_flags, image)
  IN IF ~SupportedOs(self.os)
     THEN [call |-> "render", raised |-> TRUE, error |-> UnsupportedOs(self.os),
           value |-> <<>>,
           locals |-> [NoLocals EXCEPT !.region = region, !.access = access,
                                       !.secret = secret]]
     ELSE [call |-> "render", raised |-> FALSE, error |-> NoError,
           value |-> Script(install, login_cmd, image, docker_run),
           locals |-> [region |-> region, access |-> access, secret |-> secret,
                       install |-> install, image |-> image, registry |-> registry,
                       run_env |-> run_env, env_flags |-> env_flags,
                       login_cmd |-> login_cmd, docker_run |-> docker_run]]

\* BaseUserData.__str__: self.render().strip() + "\n"; an error of render propagates
StrCall(self, ss) ==
  LET r == RenderCall(self, ss)
  IN IF r.raised THEN [r EXCEPT !.call = "str"]
     ELSE [r EXCEPT !.call = "str", !.value = Strip(r.value) \o <<"\n">>]

NoCall ==
  [call |-> "none", raised |-> FALSE, error |-> NoError, value |-> <<>>,
   locals |-> NoLocals]

(***************************************************************************)
(* Calls on Instance, Volume and S3                                        *)
(***************************************************************************)
\* a call of `method` on the object `self` with arguments `args`: what it
\* raised or returned, and the calls it issued on the boto3 client
Outcome(method, self, args, raised, error, value, issued) ==
  [call |-> method, self |-> self, args |-> args, raised |-> raised, error |-> error,
   value |-> value, issued |-> issued]

NoOutcome == Outcome("none", <<>>, <<>>, FALSE, NoError, <<>>, <<>>)

\* an error raised by the boto3 client
ClientError == [type |-> "ClientError", message |-> <<>>]

(***************************************************************************)
(* Volume                                                                  *)
(***************************************************************************)
Volume(idA, gibA, modeA) == [id |-> idA, gib |-> gibA, mode |-> modeA]

\* device_name: str = '/dev/xvda'
DefaultDevice == Chars("/dev/xvda")

\* the snapshot branch keeping the size of the new-volume branch
BlockDeviceMapping_SizedSnapshot(self, device_name) ==
  IF Truthy(self.id)
  THEN [DeviceName |-> device_name,
        Ebs |-> [SnapshotId |-> self.id.v, VolumeSize |-> self.gib,
                 DeleteOnTermination |-> FALSE, VolumeType |-> self.mode]]
  ELSE [DeviceName |-> device_name,
        Ebs |-> [VolumeSize |-> self.gib, DeleteOnTermination |-> TRUE,
                 VolumeType |-> self.mode]]

\* the dict to_block_device_mapping returns; `if self.id:` sends id = "" to
\* the new-volume branch
BlockDeviceMapping(self, device_name) ==
  IF Truthy(self.id)
  THEN [DeviceName |-> device_name,
        Ebs |-> [SnapshotId |-> self.id.v, DeleteOnTermination |-> FALSE,
                 VolumeType |-> self.mode]]
  ELSE [DeviceName |-> device_name,
        Ebs |-> [VolumeSize |-> self.gib, DeleteOnTermination |-> TRUE,
                 VolumeType |-> self.mode]]

\* Volume.to_block_device_mapping called with a device name, or with none
ToBlockDeviceMappingCall(self, device) ==
  Outcome("to_block_device_mapping", self, device, FALSE, NoError,
          BlockDeviceMapping(self, IF device.some THEN device.v ELSE DefaultDevice), <<>>)

(***************************************************************************)
(* Instance                                                                *)
(***************************************************************************)
\* user_data: Optional[Union[str, BaseUserData]]
NoUserData == [kind |-> "none", text |-> <<>>]

TextUserData(t) == [kind |-> "str", text |-> t]

\* the ContainerFleet object of this model
FleetUserData == [kind |-> "fleet", text |-> <<>>]

\* `if self.user_data:`
HasUserData(u) == u.kind = "fleet" \/ (u.kind = "str" /\ u.text # <<>>)

Instance(ec2A, idA, nameA, machineA, modeA, key_pairA, groupsA, amiA, storageA, user_dataA) ==
  [ec2 |-> ec2A, id |-> idA, name |-> nameA, machine |-> machineA, mode |-> modeA,
   key_pair |-> key_pairA,
   security_groups |-> IF groupsA.some THEN groupsA.v ELSE <<>>,
   ami |-> amiA,
   storage |-> IF storageA.some THEN storageA.v ELSE <<>>,
   user_data |-> user_dataA]

MachineRequired ==
  [type |-> "ValueError", message |-> <<"'machine' is required to create an instance">>]

KeyPairRequired ==
  [type |-> "ValueError", message |-> <<"'key_pair' is required to create an instance">>]

IdNotSet ==
  [type |-> "ValueError",
   message |-> <<"Instance ID is not set. Call create() first or provide an ID.">>]

\* key_pair tested before machine
CreateGuard_KeyPairFirst(self) ==
  IF Truthy(self.id) THEN "existing"
  ELSE IF ~Truthy(self.key_pair) THEN "key_pair"
  ELSE IF ~Truthy(self.machine) THEN "machine"
  ELSE "launch"

\* the required fields tested before the id
CreateGuard_ValidateFirst(self) ==
  IF ~Truthy(self.machine) THEN "machine"
  ELSE IF ~Truthy(self.key_pair) THEN "key_pair"
  ELSE IF Truthy(self.id) THEN "existing"
  ELSE "launch"

\* the tests create() makes before it builds anything, in their order
CreateGuard(self) ==
  IF Truthy(self.id) THEN "existing"
  ELSE IF ~Truthy(self.machine) THEN "machine"
  ELSE IF ~Truthy(self.key_pair) THEN "key_pair"
  ELSE "launch"

DeviceNames ==
  <<Chars("/dev/xvda"), Chars("/dev/xvdb"), Chars("/dev/xvdc"), Chars("/dev/xvdd"),
    Chars("/dev/xvde")>>

\* every volume mapped with to_block_device_mapping()'s default device name
BlockDevices_DefaultDevice(storage) ==
  [i \in 1..(IF Len(storage) < Len(DeviceNames) THEN Len(storage) ELSE Len(DeviceNames)) |->
     BlockDeviceMapping(storage[i], DefaultDevice)]

\* volumes past the last device name are left out
BlockDevices(storage) ==
  [i \in 1..(IF Len(storage) < Len(DeviceNames) THEN Len(storage) ELSE Len(DeviceNames)) |->
     BlockDeviceMapping(storage[i], DeviceNames[i])]

\* the keyword arguments of run_instances
RunInstancesParams(self, user_data) ==
  LET p0 == [InstanceType |-> self.machine.v, KeyName |-> self.key_pair.v,
             MinCount |-> 1, MaxCount |-> 1]
      p1 == IF Truthy(self.ami) THEN p0 @@ [ImageId |-> self.ami.v] ELSE p0
      p2 == IF self.security_groups # <<>>
            THEN p1 @@ [SecurityGroupIds |-> self.security_groups] ELSE p1
      p3 == IF Truthy(self.name)
            THEN p2 @@ [TagSpecifications |->
                          <<[ResourceType |-> "instance",
                             Tags |-> <<[Key |-> "Name", Value |-> self.name.v]>>]>>]
            ELSE p2
      p4 == IF HasUserData(self.user_data) THEN p3 @@ [UserData |-> user_data] ELSE p3
      p5 == IF self.storage # <<>> /\ BlockDevices(self.storage) # <<>>
            THEN p4 @@ [BlockDeviceMappings |-> BlockDevices(self.storage)] ELSE p4
  IN IF self.mode = "spot"
     THEN p5 @@ [InstanceMarketOptions |->
                   [MarketType |-> "spot", SpotOptions |-> [SpotInstanceType |-> "one-time"]]]
     ELSE p5

NoResponse == [ReservationId |-> <<>>, Instances |-> <<>>]

\* what EC2 answers to run_instances: one reservation, with the instances it
\* launched, MaxCount of them
RunInstancesResponse(params, launched) ==
  [ReservationId |-> Chars("r-1"),
   Instances |-> [i \in 1..params.MaxCount |-> [InstanceId |-> launched]]]

\* the reservation's id taken for the instance's
IdFromResponse_Reservation(response) == response.ReservationId

\* response['Instances'][0]['InstanceId']
IdFromResponse(response) == response.Instances[1].InstanceId

\* one call received by the boto3 client
ClientCall(op, params, raised, response) ==
  [op |-> op, params |-> params, raised |-> raised, response |-> response]

\* str(self.user_data)
UserDataStr(self, fl, ss) ==
  IF self.user_data.kind = "fleet" THEN StrCall(fl, ss)
  ELSE [raised |-> FALSE, error |-> NoError, value |-> self.user_data.text]

\* Instance.create, when run_instances would launch `launched` (ok) or raise
\* (~ok): the instance after the call and the outcome
CreateCall(self, fl, ss, launched, ok) ==
  LET guard    == CreateGuard(self)
      raise(e) == [self |-> self, out |-> Outcome("create", self, <<>>, TRUE, e, <<>>, <<>>)]
      text     == UserDataStr(self, fl, ss)
      params   == RunInstancesParams(self, text.value)
      response == RunInstancesResponse(params, launched)
  IN CASE guard = "existing" ->
            [self |-> self,
             out |-> Outcome("create", self, <<>>, FALSE, NoError, self.id.v, <<>>)]
       [] guard = "machine" -> raise(MachineRequired)
       [] guard = "key_pair" -> raise(KeyPairRequired)
       [] guard = "launch" /\ HasUserData(self.user_data) /\ text.raised -> raise(text.error)
       [] OTHER ->
            IF ~ok
            THEN [self |-> self,
                  out |-> Outcome("create", self, <<>>, TRUE, ClientError, <<>>,
                                  <<ClientCall("run_instances", params, TRUE, NoResponse)>>)]
            ELSE [self |-> [self EXCEPT !.id = Some(IdFromResponse(response))],
                  out |-> Outcome("create", self, <<>>, FALSE, NoError,
                                  IdFromResponse(response),
                                  <<ClientCall("run_instances", params, FALSE, response)>>)]

\* stop() pasted from terminate() with the client method left as it was
ApiOf_StopTerminates(method) ==
  CASE method = "start" -> "start_instances"
    [] method = "stop" -> "terminate_instances"
    [] method = "terminate" -> "terminate_instances"

\* the client method each of start(), stop() and terminate() calls
ApiOf(method) ==
  CASE method = "start" -> "start_instances"
    [] method = "stop" -> "stop_instances"
    [] method = "terminate" -> "terminate_instances"

\* terminate() forgetting the id of the instance it terminated
AfterLifecycle_TerminateClearsId(self, method) ==
  IF method = "terminate" THEN [self EXCEPT !.id = None] ELSE self

\* the instance after start(), stop() or terminate(): none of them assigns a
\* field
AfterLifecycle(self, method) == self

\* Instance.start, Instance.stop and Instance.terminate, when the client call
\* would succeed (ok) or raise (~ok)
LifecycleCall(self, method, ok) ==
  IF ~Truthy(self.id)
  THEN Outcome(method, self, <<>>, TRUE, IdNotSet, <<>>, <<>>)
  ELSE Outcome(method, self, <<>>, ~ok, IF ok THEN NoError ELSE ClientError, <<>>,
               <<ClientCall(ApiOf(method), [InstanceIds |-> <<self.id.v>>], ~ok,
                            NoResponse)>>)

(***************************************************************************)
(* S3                                                                      *)
(***************************************************************************)
\* str.lstrip(c) for one character c
RECURSIVE LStripChar(_, _)
LStripChar(s, c) == IF s # <<>> /\ Head(s) = c THEN LStripChar(Tail(s), c) ELSE s

\* the trailing slash added without looking at what lstrip left
NormalizePrefix_AlwaysSlash(prefix) ==
  IF ~Truthy(prefix) THEN <<>>
  ELSE LET p == LStripChar(prefix.v, "/")
       IN IF p = <<>> \/ p[Len(p)] # "/" THEN p \o <<"/">> ELSE p

\* S3._normalize_prefix
NormalizePrefix(prefix) ==
  IF ~Truthy(prefix) THEN <<>>
  ELSE LET p == LStripChar(prefix.v, "/")
       IN IF p # <<>> /\ p[Len(p)] # "/" THEN p \o <<"/">> ELSE p

NormalizePrefixCall(prefix) ==
  Outcome("_normalize_prefix", <<>>, prefix, FALSE, NoError, NormalizePrefix(prefix), <<>>)

\* the keyword arguments boto3.client receives: the truthy ones of the three
SessionKwargs(region, access_key, secret_key) ==
  LET k0 == EmptyDict
      k1 == IF Truthy(region) THEN SetItem(k0, Chars("region_name"), region.v) ELSE k0
      k2 == IF Truthy(access_key)
            THEN SetItem(k1, Chars("aws_access_key_id"), access_key.v) ELSE k1
  IN IF Truthy(secret_key)
     THEN SetItem(k2, Chars("aws_secret_access_key"), secret_key.v) ELSE k2

\* S3.__init__
S3Init(bucket, prefix, region, access_key, secret_key) ==
  [bucket |-> bucket, prefix |-> NormalizePrefix(prefix),
   client |-> SessionKwargs(region, access_key, secret_key)]

\* the prefix kept and the leading slashes of the cloud path with it
ResolveKey_KeepSlashes(self, cloud) == self.prefix \o cloud

\* S3._resolve_key
ResolveKey(self, cloud) == self.prefix \o LStripChar(cloud, "/")

\* the bucket as a function from keys to bytes
NoObjects == <<>>

Put(store, key, body) == (key :> body) @@ store

Delete(store, key) == [k \in (DOMAIN store) \ {key} |-> store[k]]

\* what the client answers to get_object
GetObjectResponse(body) == [Body |-> body]

(***************************************************************************)
(* UTF-8: str.encode('utf-8'), bytes.decode('utf-8') and the incremental   *)
(* decoder with errors='strict'.  Bytes are integers in 0..255.            *)
(***************************************************************************)
\* two characters outside ASCII: U+00E9 and U+20AC
EAcute == "<e-acute>"

Euro == "<euro>"

\* the printable ASCII characters, from the space (32) to the tilde (126)
Printable ==
  Chars(" !\"#$%&'()*+,-./0123456789:;<=>?@ABCDEFGHIJKLMNOPQRSTUVWXYZ[\\]^_")
  \o <<Backtick>> \o Chars("abcdefghijklmnopqrstuvwxyz{|}~")

\* ord(c)
Ord(c) ==
  CASE c = "\t" -> 9
    [] c = "\n" -> 10
    [] c = "\f" -> 12
    [] c = "\r" -> 13
    [] c = EAcute -> 233
    [] c = Euro -> 8364
    [] OTHER -> 31 + FirstIndex(Printable, c)

\* chr(n), for the code points of the characters above
Chr(n) ==
  CASE n = 9 -> "\t"
    [] n = 10 -> "\n"
    [] n = 12 -> "\f"
    [] n = 13 -> "\r"
    [] n = 233 -> EAcute
    [] n = 8364 -> Euro
    [] OTHER -> Printable[n - 31]

\* the UTF-8 bytes of one code point
EncodeCodePoint(n) ==
  IF n < 128 THEN <<n>>
  ELSE IF n < 2048 THEN <<192 + (n \div 64), 128 + (n % 64)>>
  ELSE IF n < 65536
       THEN <<224 + (n \div 4096), 128 + ((n \div 64) % 64), 128 + (n % 64)>>
  ELSE <<240 + (n \div 262144), 128 + ((n \div 4096) % 64), 128 + ((n \div 64) % 64),
         128 + (n % 64)>>

\* content.encode('utf-8')
RECURSIVE Utf8Encode(_)
Utf8Encode(text) ==
  IF text = <<>> THEN <<>>
  ELSE EncodeCodePoint(Ord(Head(text))) \o Utf8Encode(Tail(text))

\* the length of the sequence a lead byte announces, 0 for a byte that cannot lead
SequenceLength(b) ==
  IF b < 128 THEN 1
  ELSE IF b \in 194..223 THEN 2
  ELSE IF b \in 224..239 THEN 3
  ELSE IF b \in 240..244 THEN 4
  ELSE 0

\* the bytes that may follow the lead byte b at position i of its sequence
Continuation(b, i) ==
  IF i > 2 THEN 128..191
  ELSE CASE b = 224 -> 160..191
         [] b = 237 -> 128..159
         [] b = 240 -> 144..191
         [] b = 244 -> 128..143
         [] OTHER -> 128..191

\* the code point of one complete sequence
DecodeSequence(q) ==
  CASE Len(q) = 1 -> q[1]
    [] Len(q) = 2 -> (q[1] - 192) * 64 + (q[2] - 128)
    [] Len(q) = 3 -> (q[1] - 224) * 4096 + (q[2] - 128) * 64 + (q[3] - 128)
    [] OTHER -> (q[1] - 240) * 262144 + (q[2] - 128) * 4096 + (q[3] - 128) * 64 + (q[4] - 128)

UnicodeDecodeError == [type |-> "UnicodeDecodeError", message |-> <<>>]

\* decoder.decode(data, final) on the bytes the decoder holds followed by the
\* new ones: the text decoded, the bytes of an unfinished sequence it keeps,
\* or the error raised
RECURSIVE Utf8Decode(_, _)
Utf8Decode(data, final) ==
  IF data = <<>> THEN [raised |-> FALSE, text |-> <<>>, pending |-> <<>>]
  ELSE
    LET n    == SequenceLength(data[1])
        have == IF Len(data) < n THEN Len(data) ELSE n
        rest == Utf8Decode(SubSeq(data, n + 1, Len(data)), final)
    IN IF n = 0 \/ \E i \in 2..have : data[i] \notin Continuation(data[1], i)
       THEN [raised |-> TRUE, text |-> <<>>, pending |-> <<>>]
       ELSE IF Len(data) < n
       THEN [raised |-> final, text |-> <<>>, pending |-> IF final THEN <<>> ELSE data]
       ELSE IF rest.raised THEN rest
       ELSE [raised |-> FALSE, text |-> <<Chr(DecodeSequence(SubSeq(data, 1, n)))>> \o rest.text,
             pending |-> rest.pending]

(***************************************************************************)
(* S3: upload, download, remove, move and the text operations              *)
(***************************************************************************)
\* S3.upload of a local file holding `data`, when upload_file goes through
\* (ok) or raises (~ok): the bucket after the call and the outcome
UploadCall(self, store, local, cloud, data, ok) ==
  LET key == ResolveKey(self, cloud)
  IN [objects |-> IF ok THEN Put(store, key, data) ELSE store,
      out |-> Outcome("upload", self, <<local, cloud>>, ~ok,
                      IF ok THEN NoError ELSE ClientError, <<>>,
                      <<ClientCall("upload_file",
                                   [Filename |-> local, Bucket |-> self.bucket, Key |-> key],
                                   ~ok, NoResponse)>>)]

\* S3.download: download_file raises for a key the bucket does not hold
DownloadCall(self, store, cloud, local, ok) ==
  LET key  == ResolveKey(self, cloud)
      done == ok /\ key \in DOMAIN store
  IN [objects |-> store,
      out |-> Outcome("download", self, <<cloud, local>>, ~done,
                      IF done THEN NoError ELSE ClientError,
                      IF done THEN store[key] ELSE <<>>,
                      <<ClientCall("download_file",
                                   [Bucket |-> self.bucket, Key |-> key, Filename |-> local],
                                   ~done, NoResponse)>>)]

\* S3.remove: delete_object succeeds whether the key exists or not
RemoveCall(self, store, cloud, ok) ==
  LET key == ResolveKey(self, cloud)
  IN [objects |-> IF ok THEN Delete(store, key) ELSE store,
      out |-> Outcome("remove", self, <<cloud>>, ~ok,
                      IF ok THEN NoError ELSE ClientError, <<>>,
                      <<ClientCall("delete_object", [Bucket |-> self.bucket, Key |-> key],
                                   ~ok, NoResponse)>>)]

\* S3.move: copy_object, then delete_object; `copied` and `deleted` say whether
\* the service lets each of them through.  copy_object raises for a source
\* key the bucket does not hold.
MoveCall(self, store, original, new, copied, deleted) ==
  LET original_key == ResolveKey(self, original)
      new_key      == ResolveKey(self, new)
      copy_done    == copied /\ original_key \in DOMAIN store
      after_copy   == IF copy_done THEN Put(store, new_key, store[original_key]) ELSE store
      copy   == ClientCall("copy_object",
                           [Bucket |-> self.bucket,
                            CopySource |-> [Bucket |-> self.bucket, Key |-> original_key],
                            Key |-> new_key],
                           ~copy_done, NoResponse)
      delete == ClientCall("delete_object", [Bucket |-> self.bucket, Key |-> original_key],
                           ~deleted, NoResponse)
      raised == ~copy_done \/ ~deleted
  IN [objects |-> IF copy_done /\ deleted THEN Delete(after_copy, original_key) ELSE after_copy,
      out |-> Outcome("move", self, <<original, new>>, raised,
                      IF raised THEN ClientError ELSE NoError, <<>>,
                      IF copy_done THEN <<copy, delete>> ELSE <<copy>>)]

\* S3Text.read: get_object, then the body decoded as a whole
TextReadCall(self, store, cloud, ok) ==
  LET key      == ResolveKey(self, cloud)
      got      == ok /\ key \in DOMAIN store
      decoded  == Utf8Decode(IF got THEN store[key] ELSE <<>>, TRUE)
      response == IF got THEN GetObjectResponse(store[key]) ELSE NoResponse
  IN [objects |-> store,
      out |-> Outcome("as_text.read", self, <<cloud>>, ~got \/ decoded.raised,
                      IF ~got THEN ClientError
                      ELSE IF decoded.raised THEN UnicodeDecodeError ELSE NoError,
                      decoded.text,
                      <<ClientCall("get_object", [Bucket |-> self.bucket, Key |-> key],
                                   ~got, response)>>)]

\* S3Text.write: put_object with the content encoded
TextWriteCall(self, store, content, cloud, ok) ==
  LET key  == ResolveKey(self, cloud)
      body == Utf8Encode(content)
  IN [objects |-> IF ok THEN Put(store, key, body) ELSE store,
      out |-> Outcome("as_text.write", self, <<content, cloud>>, ~ok,
                      IF ok THEN NoError ELSE ClientError, <<>>,
                      <<ClientCall("put_object",
                                   [Bucket |-> self.bucket, Key |-> key, Body |-> body],
                                   ~ok, NoResponse)>>)]

(***************************************************************************)
(* S3Text.stream_lines, a generator: it runs from one yield to the next    *)
(***************************************************************************)
\* no call is in progress
NoFrame == [call |-> "none", pc |-> "idle"]

\* the generator at its `for chunk in ...`: the body as get_object returned
\* it, the bytes not yet delivered, the chunks delivered, the bytes the
\* decoder holds, buffer, and the lines yielded so far
StreamFrame(pc, bytes, rest, chunks, pending, buffer, yielded) ==
  [call |-> "stream_lines", pc |-> pc, bytes |-> bytes, rest |-> rest, chunks |-> chunks,
   pending |-> pending, buffer |-> buffer, yielded |-> yielded]

Raised(f) == [f EXCEPT !.pc = "raised"]

\* the start of the generator: _resolve_key and get_object
StreamOpenCall(self, store, cloud, ok) ==
  LET key == ResolveKey(self, cloud)
      got == ok /\ key \in DOMAIN store
      body == IF got THEN store[key] ELSE <<>>
  IN [frame |-> StreamFrame(IF got THEN "chunks" ELSE "raised", body, body, <<>>, <<>>,
                            <<>>, <<>>),
      out |-> Outcome("as_text.stream_lines", self, <<cloud>>, ~got,
                      IF got THEN NoError ELSE ClientError, <<>>,
                      <<ClientCall("get_object", [Bucket |-> self.bucket, Key |-> key], ~got,
                                   IF got THEN GetObjectResponse(body) ELSE NoResponse)>>)]

\* a decoder made anew for every chunk: the bytes of an unfinished character
\* are not carried over
DecodeChunk_Stateless(pending, chunk) == Utf8Decode(chunk, FALSE)

\* decoder.decode(chunk, final=False) of the incremental decoder
DecodeChunk(pending, chunk) == Utf8Decode(pending \o chunk, FALSE)

\* buffer += decoder.decode(chunk, final=False), for the chunk made of the
\* next k bytes of the body
StreamRead(f, k) ==
  LET chunk   == SubSeq(f.rest, 1, k)
      decoded == DecodeChunk(f.pending, chunk)
      g       == [f EXCEPT !.rest = SubSeq(f.rest, k + 1, Len(f.rest)),
                           !.chunks = Append(f.chunks, chunk)]
  IN IF decoded.raised THEN Raised(g)
     ELSE [g EXCEPT !.pending = decoded.pending, !.buffer = f.buffer \o decoded.text]

\* line, buffer = buffer.split('\n', 1); yield line
StreamYield(f) ==
  LET i == FirstIndex(f.buffer, "\n")
  IN [f EXCEPT !.yielded = Append(f.yielded, SubSeq(f.buffer, 1, i - 1)),
               !.buffer = SubSeq(f.buffer, i + 1, Len(f.buffer))]

\* the rest of the buffer yielded even when it is empty
YieldsRest_Always(buffer) == TRUE

\* `if buffer:`
YieldsRest(buffer) == buffer # <<>>

\* after the loop: buffer += decoder.decode(b"", final=True), a last yield of
\* what is left, and the generator returns
StreamFinish(f) ==
  LET decoded == Utf8Decode(f.pending, TRUE)
      buffer  == f.buffer \o decoded.text
  IN IF decoded.raised THEN Raised(f)
     ELSE [f EXCEPT !.pc = "done", !.pending = <<>>, !.buffer = buffer,
                    !.yielded = IF YieldsRest(buffer) THEN Append(f.yielded, buffer)
                                ELSE f.yielded]

(***************************************************************************)
(* AntokelAws                                                              *)
(***************************************************************************)
\* a or b
Or(a, b) == IF Truthy(a) THEN a ELSE b

\* region looked up under AWS_DEFAULT_REGION before AWS_REGION
AntokelAwsInit_DefaultRegionFirst(region, access_key, secret_key, env) ==
  AwsRuntimeCredentials(Or(Or(region, env[AWS_DEFAULT_REGION]), env[AWS_REGION]),
                        Or(access_key, env[AWS_ACCESS_KEY_ID]),
                        Or(secret_key, env[AWS_SECRET_ACCESS_KEY]))

\* AntokelAws.__init__ under the environment env (os.environ.get gives None
\* for a variable that is not set)
AntokelAwsInit(region, access_key, secret_key, env) ==
  AwsRuntimeCredentials(Or(Or(region, env[AWS_REGION]), env[AWS_DEFAULT_REGION]),
                        Or(access_key, env[AWS_ACCESS_KEY_ID]),
                        Or(secret_key, env[AWS_SECRET_ACCESS_KEY]))

\* the constructor call: `self` holds os.environ as the constructor found it
AntokelAwsCall(region, access_key, secret_key, env) ==
  Outcome("AntokelAws", env, <<region, access_key, secret_key>>, FALSE, NoError,
          AntokelAwsInit(region, access_key, secret_key, env), <<>>)

\* EC2.__init__: the three attributes it keeps
Ec2Init(region, access_key, secret_key) == AwsRuntimeCredentials(region, access_key, secret_key)

\* AntokelAws.S3: the S3 object made and the constructor call that made it
AwsS3Call(self, bucket, prefix) ==
  Outcome("S3", self, <<bucket, prefix>>, FALSE, NoError,
          S3Init(bucket, prefix, self.region, self.access_key, self.secret_key),
          <<ClientCall("S3.__init__",
                       [bucket |-> bucket, prefix |-> prefix, region |-> self.region,
                        access_key |-> self.access_key, secret_key |-> self.secret_key],
                       FALSE, NoResponse)>>)

\* AntokelAws.EC2
AwsEc2Call(self) ==
  Outcome("EC2", self, <<>>, FALSE, NoError,
          Ec2Init(self.region, self.access_key, self.secret_key),
          <<ClientCall("EC2.__init__",
                       [region |-> self.region, access_key |-> self.access_key,
                        secret_key |-> self.secret_key],
                       FALSE, NoResponse)>>)

(***************************************************************************)
(* Operations                                                              *)
(***************************************************************************)
\* render iterating self.env itself and emptying it as it goes
EnvAfterRender_Consumed(self, creds) == EmptyDict

\* run_env = self.env: the injected entries land in the caller's dict
EnvAfterRender_Aliased(self, creds) == RunEnv(self, creds)

\* run_env = dict(self.env): render fills a copy, so self.env (the dict the
\* caller passed in) is after the call what it was before it
EnvAfterRender(self, creds) == self.env

\* the renderer after render(): a render that raises stops before it reaches env
SelfAfterRender(self, ss) ==
  IF ~SupportedOs(self.os) THEN self
  ELSE [self EXCEPT !.env = EnvAfterRender(self, AwsCreds(self, ss))]

Render ==
  /\ ret' = RenderCall(fleet, sessions)
  /\ prev' = ret
  /\ fleet' = SelfAfterRender(fleet, sessions)
  /\ UNCHANGED <<sessions, instance, calls, out, awsVars, s3Vars, pageVars>>

Str ==
  /\ ret' = StrCall(fleet, sessions)
  /\ prev' = ret
  /\ fleet' = SelfAfterRender(fleet, sessions)
  /\ UNCHANGED <<sessions, instance, calls, out, awsVars, s3Vars, pageVars>>

Next == Render \/ Str

(***************************************************************************)
(* Inputs                                                                  *)
(***************************************************************************)
Ec2Ids == {1, 2}

NoCreds == AwsRuntimeCredentials(None, None, None)

\* ec2.Instance() with no argument
NoInstance ==
  Instance(1, None, None, None, "on-demand", None, None, None, None, NoUserData)

EnvironNames == {AWS_REGION, AWS_DEFAULT_REGION, AWS_ACCESS_KEY_ID, AWS_SECRET_ACCESS_KEY}

\* an environment with none of them set
NoEnviron == [n \in EnvironNames |-> None]

DefaultBucket == Chars("test-bucket")

\* no AntokelAws or S3 object is in use, find_by_name is not running
IdleAws ==
  /\ aws = AwsRuntimeCredentials(None, None, None)
  /\ environ = NoEnviron
  /\ s3 = S3Init(DefaultBucket, None, None, None, None)
  /\ objects = NoObjects
  /\ listing = <<>>
  /\ frame = NoFrame

\* no Instance, Volume or S3 call is made
IdleEc2 ==
  /\ instance = NoInstance
  /\ calls = <<>>
  /\ out = NoOutcome
  /\ IdleAws

DefaultEcr == Chars("host/repo")

\* tag: str = "latest"
DefaultTag == Chars("latest")

StringsUpTo(A, n) == UNION {[1..k -> A] : k \in 0..n}

\* the dicts of at most m entries with keys in Ks (pairwise distinct) whose
\* values, over the alphabet A, have at most `budget` characters in total
RECURSIVE EntriesWithin(_, _, _, _)
EntriesWithin(Ks, A, m, budget) ==
  IF m = 0 THEN {<<>>}
  ELSE {<<>>} \cup
       UNION {{<<[k |-> key, v |-> val]>> \o rest :
                 rest \in EntriesWithin(Ks \ {key}, A, m - 1, budget - Len(val))} :
              key \in Ks, val \in StringsUpTo(A, budget)}

(***************************************************************************)
(* Quoting: env keys and values with shell metacharacters                  *)
(***************************************************************************)
MaxEnv == 1

MaxEnvChars == 2

\* a plain character, a space, both quotes, $, backquote and backslash
QuoteAlphabet == {"a", " ", "'", "\"", "$", Backtick, "\\"}

QuoteKeys == {Chars("K"), Chars("k 2")}

QuoteEnvs == EntriesWithin(QuoteKeys, QuoteAlphabet, MaxEnv, MaxEnvChars)

InitQuote ==
  /\ fleet \in {ContainerFleet(DefaultEcr, "amazon_linux", Some(d), <<>>, DefaultTag,
                               TRUE, NoEc2) : d \in QuoteEnvs}
  /\ sessions = [i \in Ec2Ids |-> NoCreds]
  /\ ret = NoCall
  /\ prev = NoCall
  /\ IdleEc2

SpecQuote == InitQuote /\ [][Next]_vars

Rendered == ret.call \in {"render", "str"} /\ ~ret.raised

\* the words docker must receive for the env flags: -e, KEY=VALUE, -e, KEY=VALUE, ...
RECURSIVE FlagWords(_)
FlagWords(d) ==
  IF d = <<>> THEN <<>>
  ELSE <<Chars("-e"), d[1].k \o <<"=">> \o d[1].v>> \o FlagWords(Tail(d))

\* the last command line of the script, as the template writes it
RunLine(docker_run) == Chars("su - ec2-user -c \"") \o docker_run \o <<"\"">>

\* C1: whatever the env values contain, the shell that runs the script reads
\* the line  su - ec2-user -c "<docker run ...>"  as su with the whole run
\* command as one unexpanded argument, and the shell that su starts reads that
\* argument as docker run with exactly -e KEY=VALUE for every entry.
C1_EnvCannotCorruptRunLine ==
  Rendered =>
    /\ ReadsBackAs(RunLine(ret.locals.docker_run),
                   <<Chars("su"), Chars("-"), Chars("ec2-user"), Chars("-c"),
                     ret.locals.docker_run>>)
    /\ ReadsBackAs(ret.locals.docker_run,
                   <<Chars("docker"), Chars("run"), Chars("-d"), Chars("--restart=always")>>
                   \o FlagWords(ret.locals.run_env)
                   \o <<ret.locals.image>>)

\* C2: a POSIX shell reads quote(s) back as the single word s, for every env
\* key and value s, and reads the rendered flags as the words -e, KEY=VALUE.
C2_QuoteReadsBack ==
  Rendered =>
    /\ \A i \in DOMAIN fleet.env :
         /\ ReadsBackAs(ShellQuote(fleet.env[i].k), <<fleet.env[i].k>>)
         /\ ReadsBackAs(ShellQuote(fleet.env[i].v), <<fleet.env[i].v>>)
    /\ ReadsBackAs(ret.locals.env_flags, FlagWords(ret.locals.run_env))

C2_Witness ==
  /\ Rendered
  /\ \E i \in DOMAIN fleet.env : fleet.env[i].v = <<"'", " ">>
  /\ \E i \in DOMAIN fleet.env : fleet.env[i].k = Chars("k 2")

(***************************************************************************)
(* Injected credentials: env against the bound session's region and keys   *)
(***************************************************************************)
AwsKeys == {AWS_REGION, AWS_ACCESS_KEY_ID, AWS_SECRET_ACCESS_KEY}

EnvKeys == AwsKeys \cup {Chars("DEBUG")}

CallerValue == Chars("custom")

SessionValue == Chars("us-east-1")

\* the dicts of at most m entries with pairwise distinct keys in Ks and values in Vs
RECURSIVE Dicts(_, _, _)
Dicts(Ks, Vs, m) ==
  IF m = 0 THEN {<<>>}
  ELSE {<<>>} \cup
       UNION {{<<[k |-> key, v |-> val]>> \o rest : rest \in Dicts(Ks \ {key}, Vs, m - 1)} :
              key \in Ks, val \in Vs}

\* a credential field is absent, empty or set
CredentialValues == {None, Some(<<>>), Some(SessionValue)}

\* a secret key with characters that shlex.quote does not leave bare
SecretValue == Chars("wJa+r/K")

CredentialContexts ==
  {AwsRuntimeCredentials(r, a, k) :
     r \in CredentialValues, a \in CredentialValues,
     k \in {None, Some(<<>>), Some(SecretValue)}}

MaxEnvKeys == 2

InitEnv ==
  /\ fleet \in {ContainerFleet(DefaultEcr, "amazon_linux", Some(d), <<>>, DefaultTag, inc, e) :
                  d \in Dicts(EnvKeys, {CallerValue}, MaxEnvKeys), inc \in BOOLEAN,
                  e \in {NoEc2, 1}}
  /\ sessions \in {[i \in Ec2Ids |-> IF i = 1 /\ fleet.ec2 = 1 THEN c ELSE NoCreds] :
                     c \in CredentialContexts}
  /\ ret = NoCall
  /\ prev = NoCall
  /\ IdleEc2

SpecEnv == InitEnv /\ [][Next]_vars

\* the credential context the bound session gives at this moment
Credentials == AwsCreds(fleet, sessions)

CredentialOf(key) ==
  IF key = AWS_REGION THEN Credentials.region
  ELSE IF key = AWS_ACCESS_KEY_ID THEN Credentials.access_key
  ELSE Credentials.secret_key

ValueIn(d, key) == d[CHOOSE i \in DOMAIN d : d[i].k = key].v

\* the KEY=VALUE words that follow -e when a shell reads the rendered flags
FlagArgs(text) ==
  LET w == ShellParse(text).words
  IN [i \in 1..(Len(w) \div 2) |-> w[2 * i]]

IsPrefix(p, t) == Len(p) <= Len(t) /\ SubSeq(t, 1, Len(p)) = p

\* C3: a caller's AWS_* entry wins over the credential context: the flags hold
\* exactly one -e for that key, with the caller's value, and none with the
\* session's value.
C3_CallerEntryWins ==
  (Rendered /\ fleet.include_aws_env) =>
    \A key \in AwsKeys \cap Keys(fleet.env) :
      OrEmpty(CredentialOf(key)) # ValueIn(fleet.env, key) =>
        LET args == FlagArgs(ret.locals.env_flags)
            mine == {i \in DOMAIN args : IsPrefix(key \o <<"=">>, args[i])}
        IN /\ Cardinality(mine) = 1
           /\ \A i \in mine : args[i] = key \o <<"=">> \o ValueIn(fleet.env, key)
           /\ \A i \in DOMAIN args : args[i] # key \o <<"=">> \o OrEmpty(CredentialOf(key))

C3_Witness ==
  /\ Rendered /\ fleet.include_aws_env
  /\ AWS_REGION \in Keys(fleet.env)
  /\ Credentials.region = Some(SessionValue)
  /\ ValueIn(fleet.env, AWS_REGION) = CallerValue

\* an injected entry for key: a flag after the caller's own, carrying the
\* session's value
Injected(key) ==
  LET args == FlagArgs(ret.locals.env_flags)
  IN \E i \in DOMAIN args :
       /\ i > Len(fleet.env)
       /\ args[i] = key \o <<"=">> \o CredentialOf(key).v

\* C4 as claimed: a credential is injected exactly when its field is not
\* absent and its key is not in env.
C4_InjectedIffNotAbsent ==
  Rendered =>
    \A key \in AwsKeys :
      Injected(key) <=>
        (fleet.include_aws_env /\ CredentialOf(key).some /\ key \notin Keys(fleet.env))

\* C4 (amended): a credential is injected exactly when include_aws_env is true,
\* its field is neither absent nor the empty string, and its key is not in env.
C4_InjectedIffNonEmpty ==
  Rendered =>
    \A key \in AwsKeys :
      Injected(key) <=>
        (fleet.include_aws_env /\ Truthy(CredentialOf(key)) /\ key \notin Keys(fleet.env))

C4_Witness ==
  /\ Rendered /\ fleet.include_aws_env
  /\ Credentials.region = Some(<<>>)
  /\ Credentials.access_key = Some(SessionValue)
  /\ AWS_REGION \notin Keys(fleet.env)
  /\ AWS_ACCESS_KEY_ID \notin Keys(fleet.env)
  /\ Injected(AWS_ACCESS_KEY_ID) /\ ~Injected(AWS_REGION)

(***************************************************************************)
(* OS families: every family against degenerate values of the other fields *)
(***************************************************************************)
\* env as the caller passes it: missing, empty, one entry
EnvArguments == {None, Some(EmptyDict), Some(<<[k |-> Chars("DEBUG"), v |-> Chars("true")]>>)}

\* a session's credential fields, each absent or set
PartialCredentials ==
  {AwsRuntimeCredentials(r, a, k) :
     r \in {None, Some(SessionValue)}, a \in {None, Some(Chars("AKIA"))},
     k \in {None, Some(Chars("secret"))}}

InitOs ==
  /\ fleet \in {ContainerFleet(repo, o, envA, c, DefaultTag, inc, e) :
                  repo \in {<<>>, DefaultEcr}, o \in OsFamilies, envA \in EnvArguments,
                  c \in {<<>>, Chars("python main.py")}, inc \in BOOLEAN, e \in {NoEc2, 1}}
  /\ sessions \in {[i \in Ec2Ids |-> IF i = 1 /\ fleet.ec2 = 1 THEN c ELSE NoCreds] :
                     c \in PartialCredentials}
  /\ ret = NoCall
  /\ prev = NoCall
  /\ IdleEc2

SpecOs == InitOs /\ [][Next]_vars

Called == ret.call \in {"render", "str"}

\* C5: with os windows, macos or suse_linux, render (and str) raises the
\* unsupported-OS error (a ValueError), whose message names the family by
\* carrying the offending os value, and no script text is returned.
C5_UnsupportedOsRaises ==
  (Called /\ fleet.os \in {"windows", "macos", "suse_linux"}) =>
    /\ ret.raised
    /\ ret.error.type = "ValueError"
    /\ ret.error.message[1] = "Unsupported OS for ContainerFleet user-data: "
    /\ ret.error.message[Len(ret.error.message)] = fleet.os
    /\ ret.value = <<>>

C5_Witness ==
  /\ Called /\ ret.raised /\ fleet.os = "windows"
  /\ fleet.cmd # <<>> /\ fleet.env # EmptyDict /\ fleet.ec2 # NoEc2

\* a complete script: the shebang and strict mode, the installer block, the
\* login, pull and run lines, in that order, up to the end
CompleteScript(text) ==
  /\ IsPrefix(Chars("#!/bin/bash\nset -euo pipefail\n\n") \o ret.locals.install
              \o Chars("\n\n# Authenticate"), text)
  /\ ret.locals.install # <<>>
  /\ \E i \in 1..Len(text) :
       SubSeq(text, i, Len(text)) =
         Chars("su - ec2-user -c \"") \o ret.locals.docker_run \o Chars("\"\n")

\* C6: with a supported os nothing else makes render fail: every call returns
\* a complete script.
C6_SupportedOsAlwaysRenders ==
  (Called /\ fleet.os \in {"amazon_linux", "red_hat", "ubuntu", "debian"}) =>
    /\ ~ret.raised
    /\ CompleteScript(ret.value)

C6_Witness ==
  /\ Called /\ ~ret.raised /\ fleet.os = "debian"
  /\ fleet.cmd = <<>> /\ fleet.env = EmptyDict /\ fleet.ecr = <<>> /\ fleet.ec2 = NoEc2

(***************************************************************************)
(* Command override: cmd with blanks and line breaks at either end         *)
(***************************************************************************)
MaxCmdLen == 2

CmdAlphabet == {"x", " ", "\n"}

InitCmd ==
  /\ fleet \in {ContainerFleet(DefaultEcr, o, envA, c, DefaultTag, TRUE, NoEc2) :
                  o \in OsFamilies, c \in StringsUpTo(CmdAlphabet, MaxCmdLen),
                  envA \in {Some(EmptyDict),
                            Some(<<[k |-> Chars("DEBUG"), v |-> Chars("true")]>>)}}
  /\ sessions = [i \in Ec2Ids |-> NoCreds]
  /\ ret = NoCall
  /\ prev = NoCall
  /\ IdleEc2

SpecCmd == InitCmd /\ [][Next]_vars

Contains(t, p) == \E i \in 1..(Len(t) - Len(p) + 1) : SubSeq(t, i, i + Len(p) - 1) = p

EndsWith(t, p) == Len(p) <= Len(t) /\ SubSeq(t, Len(t) - Len(p) + 1, Len(t)) = p

\* the image reference as the run command writes it
ImageRef == ShellQuote(ret.locals.image)

\* C7 as claimed: a non-empty cmd gives --entrypoint '' and the run command
\* ends with the image reference, a space and cmd exactly as given; an empty
\* cmd gives no --entrypoint and the run command ends with the image reference.
C7_CmdAppendedUnmodified ==
  Rendered =>
    IF fleet.cmd # <<>>
    THEN /\ Contains(ret.locals.docker_run, Chars("--entrypoint ''"))
         /\ EndsWith(ret.locals.docker_run, ImageRef \o <<" ">> \o fleet.cmd)
    ELSE /\ ~Contains(ret.locals.docker_run, Chars("--entrypoint"))
         /\ EndsWith(ret.locals.docker_run, ImageRef)

\* C7 (amended): as claimed, except that whitespace at the end of cmd is
\* dropped: the run command ends with the image reference, a space and cmd,
\* with the trailing whitespace of that text removed.
C7_CmdAppendedRightStripped ==
  Rendered =>
    IF fleet.cmd # <<>>
    THEN /\ Contains(ret.locals.docker_run, Chars("--entrypoint ''"))
         /\ EndsWith(ret.locals.docker_run, RStrip(ImageRef \o <<" ">> \o fleet.cmd))
         /\ ~IsSpace(fleet.cmd[Len(fleet.cmd)]) =>
              EndsWith(ret.locals.docker_run, ImageRef \o <<" ">> \o fleet.cmd)
    ELSE /\ ~Contains(ret.locals.docker_run, Chars("--entrypoint"))
         /\ EndsWith(ret.locals.docker_run, ImageRef)

C7_Witness ==
  /\ Rendered
  /\ fleet.cmd = <<"x", " ">>
  /\ EndsWith(ret.locals.docker_run, ImageRef \o Chars(" x"))

\* C10: a rendered script, from render() or str(), begins with the shebang
\* line, ends with exactly one newline and has no whitespace right before it.
C10_ShebangAndOneFinalNewline ==
  Rendered =>
    /\ IsPrefix(Chars("#!/bin/bash\n"), ret.value)
    /\ ret.value[Len(ret.value)] = "\n"
    /\ ~IsSpace(ret.value[Len(ret.value) - 1])

C10_Witness ==
  /\ ret.call = "str" /\ ~ret.raised
  /\ fleet.cmd = <<"x", "\n">>
  /\ fleet.os = "ubuntu"

(***************************************************************************)
(* Image reference: repository paths over a name, `/` and `:`              *)
(***************************************************************************)
MaxEcrLen == 3

EcrAlphabet == {"h", "/", ":"}

Tags == {DefaultTag, Chars("v2")}

InitImage ==
  /\ fleet \in {ContainerFleet(repo, "amazon_linux", None, <<>>, t, TRUE, NoEc2) :
                  repo \in StringsUpTo(EcrAlphabet, MaxEcrLen), t \in Tags}
  /\ sessions = [i \in Ec2Ids |-> NoCreds]
  /\ ret = NoCall
  /\ prev = NoCall
  /\ IdleEc2

SpecImage == InitImage /\ [][Next]_vars

\* a `:` after which no `/` follows: the last path segment carries a tag
TagInLastSegment(repo) ==
  \E i \in 1..Len(repo) : repo[i] = ":" /\ \A j \in (i + 1)..Len(repo) : repo[j] # "/"

\* C8: the image is the repository path verbatim when the text after its last
\* `/` contains `:`, and repository path + ":" + default tag otherwise; a `:`
\* before the last `/` (a registry port) is no tag.
C8_EmbeddedTagWins ==
  Rendered =>
    ret.locals.image =
      IF TagInLastSegment(fleet.ecr) THEN fleet.ecr
      ELSE fleet.ecr \o <<":">> \o fleet.tag

C8_Witness ==
  /\ Rendered
  /\ fleet.ecr = <<"h", ":", "/">> \/ fleet.ecr = <<":", "/", "h">>
  /\ ret.locals.image = fleet.ecr \o <<":">> \o fleet.tag

\* the part of a repository path before its first `/` (all of it without one)
UpToFirstSlash(repo) ==
  IF \E i \in 1..Len(repo) : repo[i] = "/"
  THEN SubSeq(repo, 1, (CHOOSE i \in 1..Len(repo) :
                          repo[i] = "/" /\ \A j \in 1..(i - 1) : repo[j] # "/") - 1)
  ELSE repo

\* C9: the registry host of the login command is the repository path up to
\* its first `/`, the same as when taken from the image; an empty repository
\* path gives an empty registry host.
C9_RegistryIsPathUpToFirstSlash ==
  Rendered =>
    /\ ret.locals.registry = UpToFirstSlash(fleet.ecr)
    /\ UpToFirstSlash(ret.locals.image) = UpToFirstSlash(fleet.ecr)
    /\ fleet.ecr = <<>> => ret.locals.registry = <<>>
    /\ EndsWith(ret.locals.login_cmd,
                Chars("--password-stdin ") \o ShellQuote(UpToFirstSlash(fleet.ecr)))

PlainWords(text) ==
  LET p == ShellParse(text)
  IN IF p.ok /\ ~p.expanded THEN p.words ELSE <<>>

\* the words of the login command around the region and before the registry
LoginWords ==
  <<Chars("aws"), Chars("ecr"), Chars("get-login-password"), Chars("--region")>>

DockerLoginWords ==
  <<Chars("docker"), Chars("login"), Chars("--username"), Chars("AWS"),
    Chars("--password-stdin")>>

\* C12: read by a shell, the login command is the three assignments of the
\* session's region and keys ("" for an absent one), aws ecr get-login-password
\* with that region after --region, and docker login on the registry: env and
\* include_aws_env have no part in it.
C12_LoginFromCredentialsOnly ==
  Rendered =>
    LET region == OrEmpty(Credentials.region)
        access == OrEmpty(Credentials.access_key)
        secret == OrEmpty(Credentials.secret_key)
    IN /\ PlainWords(ret.locals.login_cmd) =
            <<AWS_REGION \o <<"=">> \o region,
              AWS_ACCESS_KEY_ID \o <<"=">> \o access,
              AWS_SECRET_ACCESS_KEY \o <<"=">> \o secret>>
            \o LoginWords \o <<region>> \o DockerLoginWords \o <<ret.locals.registry>>
       /\ Contains(ret.value,
                    Chars("su - ec2-user -c \"") \o ret.locals.login_cmd \o Chars("\"\n"))

C12_Witness ==
  /\ Rendered /\ ~fleet.include_aws_env
  /\ AWS_REGION \in Keys(fleet.env)
  /\ ValueIn(fleet.env, AWS_REGION) # OrEmpty(Credentials.region)
  /\ Credentials.region = Some(SessionValue)
  /\ Credentials.access_key = None
  /\ Credentials.secret_key = Some(SecretValue)

\* the lines of text
RECURSIVE Lines(_)
Lines(text) ==
  LET i == FirstIndex(text, "\n")
  IN IF i = 0 THEN <<text>>
     ELSE <<SubSeq(text, 1, i - 1)>> \o Lines(SubSeq(text, i + 1, Len(text)))

YumFamily == {"amazon_linux", "red_hat"}

AptFamily == {"ubuntu", "debian"}

\* the commands of the two families, as claimed
YumFamilyBlock ==
  <<Chars("yum update -y"),
    Chars("yum install -y docker aws-cli"),
    Chars("service docker start"),
    Chars("usermod -a -G docker ec2-user")>>

AptFamilyBlock ==
  <<Chars("apt-get update -y"),
    Chars("apt-get install -y docker.io awscli"),
    Chars("systemctl enable docker"),
    Chars("systemctl start docker"),
    Chars("usermod -a -G docker ubuntu || true")>>

Tolerant == Chars("|| true")

\* C13: whatever env, cmd and the credentials are, the installer block of a
\* yum-family os is the four commands update, install docker and the aws cli,
\* start docker, add ec2-user to the docker group; that of an apt-family os is
\* the five commands update, install, enable docker, start docker, add ubuntu
\* to the docker group; `|| true` ends the apt-family group-add and appears
\* nowhere in the yum-family block.
C13_InstallerByOsFamily ==
  Rendered =>
    LET block == Lines(ret.locals.install)
    IN /\ fleet.os \in YumFamily \cup AptFamily
       /\ fleet.os \in YumFamily =>
            /\ block = YumFamilyBlock
            /\ ~Contains(ret.locals.install, Tolerant)
       /\ fleet.os \in AptFamily =>
            /\ block = AptFamilyBlock
            /\ EndsWith(block[5], Tolerant)
            /\ \A i \in 1..4 : ~Contains(block[i], Tolerant)
       /\ IsPrefix(Chars("#!/bin/bash\nset -euo pipefail\n\n") \o ret.locals.install
                   \o Chars("\n\n"), ret.value)

C13_Witness ==
  /\ Rendered /\ fleet.os = "red_hat"
  /\ fleet.env # EmptyDict /\ fleet.cmd # <<>>
  /\ Len(Lines(ret.locals.install)) = 4

\* C14: a call of render() or str() changes no field of the renderer, env
\* included, and nothing of any session.
C14_RenderChangesNoField == [][fleet' = fleet /\ sessions' = sessions]_vars

C14_Witness ==
  /\ prev.call = "render" /\ ret.call = "render" /\ ~ret.raised
  /\ fleet.include_aws_env
  /\ \A key \in AwsKeys : Truthy(CredentialOf(key)) /\ Injected(key)
  /\ Keys(fleet.env) = {Chars("DEBUG")}

\* the credential keys in the order render injects them
InjectionOrder == <<AWS_REGION, AWS_ACCESS_KEY_ID, AWS_SECRET_ACCESS_KEY>>

\* the keys render has a credential to inject for, in that order
InjectedKeys ==
  SelectSeq(InjectionOrder,
            LAMBDA key : /\ fleet.include_aws_env
                         /\ Truthy(CredentialOf(key))
                         /\ key \notin Keys(fleet.env))

\* C25: read by a shell, the flags are -e KEY=VALUE for the caller's entries
\* in the caller's order (AWS_* keys among them at the place the caller gave
\* them), followed by the injected credentials in the order AWS_REGION,
\* AWS_ACCESS_KEY_ID, AWS_SECRET_ACCESS_KEY; one space separates the flags,
\* and the run command carries them between its options and the image.
C25_CallerFlagsThenInjected ==
  Rendered =>
    LET flags == ret.locals.env_flags
        words == PlainWords(flags)
        args  == FlagArgs(flags)
        n     == Len(fleet.env)
    IN /\ Len(words) = 2 * Len(args)
       /\ \A i \in DOMAIN args : words[2 * i - 1] = Chars("-e")
       /\ Len(args) = n + Len(InjectedKeys)
       /\ \A i \in 1..n : args[i] = fleet.env[i].k \o <<"=">> \o fleet.env[i].v
       /\ \A j \in DOMAIN InjectedKeys :
            args[n + j] = InjectedKeys[j] \o <<"=">> \o CredentialOf(InjectedKeys[j]).v
       /\ ~Contains(flags, <<" ", " ">>)
       /\ flags # <<>> => flags[1] # " " /\ flags[Len(flags)] # " "
       /\ Contains(ret.locals.docker_run,
                    Chars("--restart=always  ") \o flags \o <<" ">> \o ImageRef)

C25_Witness ==
  /\ Rendered
  /\ fleet.env = <<[k |-> AWS_ACCESS_KEY_ID, v |-> CallerValue],
                   [k |-> Chars("DEBUG"), v |-> CallerValue]>>
  /\ FlagArgs(ret.locals.env_flags) =
       <<AWS_ACCESS_KEY_ID \o <<"=">> \o CallerValue,
         Chars("DEBUG=custom"),
         AWS_REGION \o <<"=">> \o SessionValue,
         AWS_SECRET_ACCESS_KEY \o <<"=">> \o SecretValue>>

(***************************************************************************)
(* Instance: create, start, stop, terminate against the EC2 client         *)
(***************************************************************************)
\* the client receives at most MaxCalls calls
MaxCalls == 3

\* the ids EC2 gives to the instances it launches
InstanceIds == {Chars("i-1"), Chars("i-2")}

Create ==
  /\ Len(calls) < MaxCalls
  /\ \E launched \in InstanceIds, ok \in BOOLEAN :
       LET r == CreateCall(instance, fleet, sessions, launched, ok)
       IN /\ instance' = r.self
          /\ out' = r.out
          /\ calls' = calls \o r.out.issued
  /\ UNCHANGED <<fleet, sessions, ret, prev, awsVars, s3Vars, pageVars>>

Lifecycle(method) ==
  /\ Len(calls) < MaxCalls
  /\ \E ok \in BOOLEAN :
       /\ out' = LifecycleCall(instance, method, ok)
       /\ calls' = calls \o out'.issued
  /\ instance' = AfterLifecycle(instance, method)
  /\ UNCHANGED <<fleet, sessions, ret, prev, awsVars, s3Vars, pageVars>>

Start == Lifecycle("start")

Stop == Lifecycle("stop")

Terminate == Lifecycle("terminate")

NextInstance == Create \/ Start \/ Stop \/ Terminate

\* the renderer that an Instance with a ContainerFleet as user_data carries
IdleRenderer ==
  /\ fleet = ContainerFleet(DefaultEcr, "amazon_linux", None, <<>>, DefaultTag, TRUE, NoEc2)
  /\ sessions = [i \in Ec2Ids |-> NoCreds]
  /\ ret = NoCall
  /\ prev = NoCall

\* a field of an Instance: missing, empty or given
Given(text) == {None, Some(<<>>), Some(Chars(text))}

InitInstance ==
  /\ fleet \in {ContainerFleet(DefaultEcr, o, None, <<>>, DefaultTag, TRUE, NoEc2) :
                  o \in {"amazon_linux", "windows"}}
  /\ sessions = [i \in Ec2Ids |-> NoCreds]
  /\ ret = NoCall
  /\ prev = NoCall
  /\ instance \in {Instance(1, id, None, machine, mode, key_pair, None, None, None, u) :
                     id \in Given("i-0"), machine \in Given("t4g.micro"),
                     key_pair \in Given("my-keypair"), mode \in {"on-demand", "spot"},
                     u \in {NoUserData, TextUserData(Chars("#!/bin/bash\necho hello")),
                            FleetUserData}}
  /\ fleet.os = "windows" => instance.user_data = FleetUserData
  /\ calls = <<>>
  /\ out = NoOutcome
  /\ IdleAws

SpecInstance == InitInstance /\ [][NextInstance]_vars

\* the error message mentions the text
Mentions(error, text) ==
  \E i \in DOMAIN error.message : Contains(Chars(error.message[i]), Chars(text))

\* the last call issued nothing and left the instance as it was
NothingDone == out.issued = <<>> /\ instance = out.self

\* C15: create() on an instance without id and without machine raises a
\* ValueError that names 'machine'; without id, with machine and without
\* key_pair it raises a ValueError that names 'key_pair'; either way the client
\* receives no call and the instance, its id included, stays as it was. A field
\* that is None or "" is missing.
C15_CreateNeedsMachineAndKeyPair ==
  (out.call = "create" /\ ~Truthy(out.self.id)) =>
    /\ ~Truthy(out.self.machine) =>
         /\ out.raised /\ out.error.type = "ValueError"
         /\ Mentions(out.error, "'machine'")
         /\ NothingDone /\ ~Truthy(instance.id)
    /\ (Truthy(out.self.machine) /\ ~Truthy(out.self.key_pair)) =>
         /\ out.raised /\ out.error.type = "ValueError"
         /\ Mentions(out.error, "'key_pair'")
         /\ NothingDone /\ ~Truthy(instance.id)

C15_Witness ==
  /\ out.call = "create" /\ out.raised
  /\ out.self.id = None /\ out.self.machine = None /\ out.self.key_pair = None
  /\ Mentions(out.error, "'machine'") /\ ~Mentions(out.error, "'key_pair'")

\* C16: create() on an instance that has an id returns that id, whatever
\* machine, key_pair, mode and user_data are; the client receives no call and
\* the instance stays as it was.
C16_CreateWithIdReturnsIt ==
  (out.call = "create" /\ Truthy(out.self.id)) =>
    /\ ~out.raised
    /\ out.value = out.self.id.v
    /\ NothingDone

C16_Witness ==
  /\ out.call = "create" /\ ~out.raised
  /\ out.self.id = Some(Chars("i-0"))
  /\ out.self.machine = None /\ out.self.key_pair = None
  /\ out.value = Chars("i-0")

\* create() is called with no id, a machine and a key_pair
Launching == out.call = "create" /\ ~Truthy(out.self.id)
             /\ Truthy(out.self.machine) /\ Truthy(out.self.key_pair)

\* the call issued exactly one run_instances for exactly one instance and, if
\* it returned, the instance's id is the returned value, the id of the one
\* instance launched
OneLaunch ==
  /\ Len(out.issued) = 1
  /\ out.issued[1].op = "run_instances"
  /\ out.issued[1].params.MinCount = 1 /\ out.issued[1].params.MaxCount = 1
  /\ ~out.raised =>
       /\ Len(out.issued[1].response.Instances) = 1
       /\ out.value = out.issued[1].response.Instances[1].InstanceId
       /\ instance.id = Some(out.value)
       /\ instance = [out.self EXCEPT !.id = Some(out.value)]

\* str(user_data) of the instance the last call was made on raises
UserDataRaises ==
  HasUserData(out.self.user_data) /\ UserDataStr(out.self, fleet, sessions).raised

\* C17 as claimed: create() with no id, a machine and a key_pair issues exactly
\* one run_instances call, for one instance, and its id becomes the instance's.
C17_CreateLaunchesOne == Launching => OneLaunch

\* C17 (amended): the same, unless user_data is a renderer whose render()
\* raises: then create() raises that error, the client receives no call and
\* the instance stays as it was.
C17_CreateLaunchesOneUnlessUserDataRaises ==
  Launching =>
    IF UserDataRaises
    THEN out.raised /\ out.error = UserDataStr(out.self, fleet, sessions).error /\ NothingDone
    ELSE OneLaunch

C17_Witness ==
  /\ Launching /\ ~out.raised
  /\ out.self.id = None /\ instance.id = Some(Chars("i-2"))
  /\ out.self.user_data = FleetUserData
  /\ calls = out.issued

\* C18: start(), stop() and terminate() leave the instance as it was; without
\* an id (None or "") each raises a ValueError that mentions the Instance ID
\* and the client receives no call; with an id each issues exactly one call,
\* start_instances, stop_instances or terminate_instances, for that id alone.
C18_LifecycleNeedsId ==
  out.call \in {"start", "stop", "terminate"} =>
    /\ instance = out.self
    /\ ~Truthy(out.self.id) =>
         /\ out.raised /\ out.error.type = "ValueError"
         /\ Mentions(out.error, "Instance ID")
         /\ out.issued = <<>>
    /\ Truthy(out.self.id) =>
         /\ Len(out.issued) = 1
         /\ out.issued[1].params = [InstanceIds |-> <<out.self.id.v>>]
         /\ out.call = "start" => out.issued[1].op = "start_instances"
         /\ out.call = "stop" => out.issued[1].op = "stop_instances"
         /\ out.call = "terminate" => out.issued[1].op = "terminate_instances"

C18_Witness ==
  /\ out.call = "stop" /\ ~out.raised
  /\ Len(calls) = 2 /\ calls[1].op = "run_instances" /\ calls[2].op = "stop_instances"
  /\ calls[2].params.InstanceIds = <<calls[1].response.Instances[1].InstanceId>>

\* the positions in the client's log of the run_instances calls
LaunchCalls == {i \in DOMAIN calls : calls[i].op = "run_instances"}

\* an id that is set stays what it is
IdKept == Truthy(instance.id) => instance'.id = instance.id

\* the last call was a create() and the client had received a
\* terminate_instances before it: create() returns the id that was terminated
\* and issues nothing
CreateAfterTerminate ==
  (out.call = "create" /\ \E i \in DOMAIN calls : calls[i].op = "terminate_instances") =>
    /\ ~out.raised
    /\ out.issued = <<>>
    /\ \A i \in DOMAIN calls :
         calls[i].op = "terminate_instances" => calls[i].params.InstanceIds = <<out.value>>
    /\ instance.id = Some(out.value)

\* C26 as claimed: over any sequence of create(), start(), stop() and
\* terminate() on one Instance, an id that is set never changes and is never
\* cleared, the client receives at most one run_instances, and a create()
\* after a terminate() returns the terminated id and launches nothing.
C26_IdKeptOneLaunch ==
  /\ [][IdKept]_vars
  /\ [](Cardinality(LaunchCalls) <= 1)
  /\ []CreateAfterTerminate

\* C26 (amended): the same, with "at most one run_instances" holding of the
\* calls that return: a run_instances that raises leaves id unset, and the
\* next create() calls run_instances again.  Every run_instances but the last
\* one raised, and none is issued once id is set.
C26_IdKeptOneLaunchThatReturns ==
  /\ [][IdKept]_vars
  /\ [](\A i \in LaunchCalls : \A j \in LaunchCalls : i < j => calls[i].raised)
  /\ [][Truthy(instance.id) =>
          \A i \in DOMAIN calls' : calls'[i].op = "run_instances" => i \in DOMAIN calls]_vars
  /\ []CreateAfterTerminate

C26_Witness ==
  /\ out.call = "create" /\ ~out.raised /\ out.issued = <<>>
  /\ Len(calls) = 2
  /\ calls[1].op = "run_instances" /\ calls[2].op = "terminate_instances"
  /\ out.value = calls[1].response.Instances[1].InstanceId
  /\ instance.id = Some(out.value)

(***************************************************************************)
(* Volume: the block device mapping of every volume and device name        *)
(***************************************************************************)
\* gib: int = 8
DefaultGib == 8

MaxGib == 2

Volumes ==
  {Volume(id, gib, mode) :
     id \in Given("snap-abc123"), gib \in (0..MaxGib) \cup {DefaultGib},
     mode \in {"gp3", "gp2", "standard"}}

\* the device name argument: left out, the default, another name, empty
DeviceArgs == {None, Some(DefaultDevice), Some(Chars("/dev/sdf")), Some(<<>>)}

ToBlockDeviceMapping ==
  /\ \E volume \in Volumes, device \in DeviceArgs :
       out' = ToBlockDeviceMappingCall(volume, device)
  /\ UNCHANGED <<fleet, sessions, ret, prev, instance, calls, awsVars, s3Vars, pageVars>>

NextVolume == ToBlockDeviceMapping

InitVolume == IdleRenderer /\ IdleEc2

SpecVolume == InitVolume /\ [][NextVolume]_vars

\* C19: for every volume and device name the mapping has DeviceName = the
\* device (/dev/xvda when none is given) and an Ebs part with VolumeType =
\* mode; with an id, Ebs has SnapshotId = id, DeleteOnTermination false and no
\* VolumeSize; without one (None or ""), VolumeSize = gib, DeleteOnTermination
\* true and no SnapshotId.
C19_BlockDeviceMapping ==
  out.call = "to_block_device_mapping" =>
    LET mapping == out.value
        volume  == out.self
    IN /\ ~out.raised
       /\ DOMAIN mapping = {"DeviceName", "Ebs"}
       /\ out.args.some => mapping.DeviceName = out.args.v
       /\ ~out.args.some => mapping.DeviceName = Chars("/dev/xvda")
       /\ mapping.Ebs.VolumeType = volume.mode
       /\ Truthy(volume.id) =>
            /\ DOMAIN mapping.Ebs = {"SnapshotId", "DeleteOnTermination", "VolumeType"}
            /\ mapping.Ebs.SnapshotId = volume.id.v
            /\ mapping.Ebs.DeleteOnTermination = FALSE
       /\ ~Truthy(volume.id) =>
            /\ DOMAIN mapping.Ebs = {"VolumeSize", "DeleteOnTermination", "VolumeType"}
            /\ mapping.Ebs.VolumeSize = volume.gib
            /\ mapping.Ebs.DeleteOnTermination = TRUE

C19_Witness ==
  /\ out.call = "to_block_device_mapping"
  /\ out.self = Volume(Some(Chars("snap-abc123")), DefaultGib, "gp2")
  /\ out.args = None
  /\ out.value.DeviceName = Chars("/dev/xvda")
  /\ out.value.Ebs.SnapshotId = Chars("snap-abc123")
  /\ "VolumeSize" \notin DOMAIN out.value.Ebs

(***************************************************************************)
(* S3 prefix: every prefix over a name character and `/`                   *)
(***************************************************************************)
MaxPrefixLen == 6

PrefixAlphabet == {"a", "/"}

PrefixArgs == {None} \cup {Some(p) : p \in StringsUpTo(PrefixAlphabet, MaxPrefixLen)}

CallNormalizePrefix ==
  /\ \E prefix \in PrefixArgs : out' = NormalizePrefixCall(prefix)
  /\ UNCHANGED <<fleet, sessions, ret, prev, instance, calls, awsVars, s3Vars, pageVars>>

NextPrefix == CallNormalizePrefix

InitPrefix == IdleRenderer /\ IdleEc2

SpecPrefix == InitPrefix /\ [][NextPrefix]_vars

\* "" or a string that does not start with / and ends with /
Normalized(p) == p = <<>> \/ (Head(p) # "/" /\ p[Len(p)] = "/")

\* C20: _normalize_prefix returns "" or a string without a leading / and with
\* a trailing /; None and "" give ""; a prefix of that form is returned as it
\* is, and so normalizing the result again changes nothing.
C20_NormalizePrefix ==
  out.call = "_normalize_prefix" =>
    /\ ~out.raised
    /\ Normalized(out.value)
    /\ ~Truthy(out.args) => out.value = <<>>
    /\ (out.args.some /\ Normalized(out.args.v)) => out.value = out.args.v
    /\ NormalizePrefix(Some(out.value)) = out.value

C20_Witness ==
  /\ out.call = "_normalize_prefix"
  /\ out.args = Some(Chars("//a/a"))
  /\ out.value = Chars("a/a/")

(***************************************************************************)
(* S3: every operation against a bucket, with and without a prefix         *)
(***************************************************************************)
\* a body is delivered in at most MaxChunks chunks
MaxChunks == 3

\* the prefix argument: left out, empty, a folder with and without slashes
Prefixes == {None, Some(<<>>), Some(Chars("d")), Some(Chars("/d/")), Some(Chars("/"))}

\* cloud paths: a name without and with leading slashes, another name
CloudPaths == {Chars("a"), Chars("//a"), Chars("/b")}

LocalPaths == {Chars("local/file")}

\* what a file or an object holds
Bodies == {Utf8Encode(Chars("v")), Utf8Encode(<<"w", "\n">>)}

\* the calls on the S3 object are made one after the other: a generator that
\* was started is run to its end before the next call, and is then dropped
NoStream == frame.pc # "chunks"

Upload ==
  /\ NoStream
  /\ \E local \in LocalPaths, cloud \in CloudPaths, data \in Bodies, ok \in BOOLEAN :
       LET r == UploadCall(s3, objects, local, cloud, data, ok)
       IN objects' = r.objects /\ out' = r.out
  /\ frame' = NoFrame
  /\ UNCHANGED <<fleet, sessions, ret, prev, instance, calls, awsVars, s3, listing>>

Download ==
  /\ NoStream
  /\ \E local \in LocalPaths, cloud \in CloudPaths, ok \in BOOLEAN :
       LET r == DownloadCall(s3, objects, cloud, local, ok)
       IN objects' = r.objects /\ out' = r.out
  /\ frame' = NoFrame
  /\ UNCHANGED <<fleet, sessions, ret, prev, instance, calls, awsVars, s3, listing>>

Remove ==
  /\ NoStream
  /\ \E cloud \in CloudPaths, ok \in BOOLEAN :
       LET r == RemoveCall(s3, objects, cloud, ok)
       IN objects' = r.objects /\ out' = r.out
  /\ frame' = NoFrame
  /\ UNCHANGED <<fleet, sessions, ret, prev, instance, calls, awsVars, s3, listing>>

Move ==
  /\ NoStream
  /\ \E original \in CloudPaths, new \in CloudPaths, copied \in BOOLEAN, deleted \in BOOLEAN :
       LET r == MoveCall(s3, objects, original, new, copied, deleted)
       IN objects' = r.objects /\ out' = r.out
  /\ frame' = NoFrame
  /\ UNCHANGED <<fleet, sessions, ret, prev, instance, calls, awsVars, s3, listing>>

TextRead ==
  /\ NoStream
  /\ \E cloud \in CloudPaths, ok \in BOOLEAN :
       LET r == TextReadCall(s3, objects, cloud, ok)
       IN objects' = r.objects /\ out' = r.out
  /\ frame' = NoFrame
  /\ UNCHANGED <<fleet, sessions, ret, prev, instance, calls, awsVars, s3, listing>>

TextWrite ==
  /\ NoStream
  /\ \E content \in {<<"w", "\n">>}, cloud \in CloudPaths, ok \in BOOLEAN :
       LET r == TextWriteCall(s3, objects, content, cloud, ok)
       IN objects' = r.objects /\ out' = r.out
  /\ frame' = NoFrame
  /\ UNCHANGED <<fleet, sessions, ret, prev, instance, calls, awsVars, s3, listing>>

\* the first next() on a generator made by stream_lines, up to get_object
StreamOpen ==
  /\ NoStream
  /\ \E cloud \in CloudPaths, ok \in BOOLEAN :
       LET r == StreamOpenCall(s3, objects, cloud, ok)
       IN frame' = r.frame /\ out' = r.out
  /\ UNCHANGED <<fleet, sessions, ret, prev, instance, calls, awsVars, s3Vars, listing>>

\* the body delivers its next chunk, any number of the bytes left, none
\* included; the last chunk it is allowed delivers all of them
StreamChunk ==
  /\ frame.pc = "chunks"
  /\ "\n" \notin Range(frame.buffer)
  /\ Len(frame.chunks) < MaxChunks
  /\ \E k \in 0..Len(frame.rest) :
       /\ Len(frame.chunks) + 1 = MaxChunks => k = Len(frame.rest)
       /\ frame' = StreamRead(frame, k)
  /\ UNCHANGED <<fleet, sessions, ret, prev, instance, calls, out, awsVars, s3Vars, listing>>

StreamLine ==
  /\ frame.pc = "chunks"
  /\ "\n" \in Range(frame.buffer)
  /\ frame' = StreamYield(frame)
  /\ UNCHANGED <<fleet, sessions, ret, prev, instance, calls, out, awsVars, s3Vars, listing>>

\* the body has no chunk left
StreamEnd ==
  /\ frame.pc = "chunks"
  /\ "\n" \notin Range(frame.buffer)
  /\ frame.rest = <<>>
  /\ frame' = StreamFinish(frame)
  /\ UNCHANGED <<fleet, sessions, ret, prev, instance, calls, out, awsVars, s3Vars, listing>>

NextStream == StreamOpen \/ StreamChunk \/ StreamLine \/ StreamEnd

NextS3 == Upload \/ Download \/ Remove \/ Move \/ TextRead \/ TextWrite \/ NextStream

\* no AntokelAws object is in use, find_by_name is not running
IdleAccount ==
  /\ aws = AwsRuntimeCredentials(None, None, None)
  /\ environ = NoEnviron
  /\ listing = <<>>

InitS3 ==
  /\ IdleRenderer
  /\ instance = NoInstance /\ calls = <<>> /\ out = NoOutcome
  /\ IdleAccount
  /\ s3 \in {S3Init(DefaultBucket, prefix, None, None, None) : prefix \in Prefixes}
  /\ objects \in {NoObjects} \cup {Put(NoObjects, ResolveKey(s3, Chars("a")), b) : b \in Bodies}
  /\ frame = NoFrame

SpecS3 == InitS3 /\ [][NextS3]_vars

\* the path without the slashes it begins with
WithoutLeadingSlashes(path) ==
  LET n == CHOOSE n \in 0..Len(path) :
             /\ \A i \in 1..n : path[i] = "/"
             /\ n = Len(path) \/ path[n + 1] # "/"
  IN SubSeq(path, n + 1, Len(path))

\* the keys one client call carries
KeysOf(call) ==
  IF call.op = "copy_object" THEN <<call.params.CopySource.Key, call.params.Key>>
  ELSE <<call.params.Key>>

RECURSIVE KeysSent(_)
KeysSent(issued) ==
  IF issued = <<>> THEN <<>> ELSE KeysOf(Head(issued)) \o KeysSent(Tail(issued))

\* the cloud paths a call is given, in the order their keys are sent
CloudPathsOf(o) ==
  CASE o.call \in {"download", "remove", "as_text.read", "as_text.stream_lines"} -> <<o.args[1]>>
    [] o.call \in {"upload", "as_text.write"} -> <<o.args[2]>>
    [] o.call = "move" ->
         IF Len(o.issued) = 1 THEN <<o.args[1], o.args[2]>>
         ELSE <<o.args[1], o.args[2], o.args[1]>>

S3Methods ==
  {"upload", "download", "remove", "move", "as_text.read", "as_text.write",
   "as_text.stream_lines"}

\* C21: every operation of an S3 object sends a key for each cloud path it is
\* given, and each key is the object's prefix, in its normalized form,
\* followed by the cloud path without its leading slashes: every key starts
\* with the prefix, and without a prefix the key is the path without its
\* leading slashes.
C21_KeyIsPrefixThenPath ==
  out.call \in S3Methods =>
    LET keys  == KeysSent(out.issued)
        paths == CloudPathsOf(out)
    IN /\ Normalized(out.self.prefix)
       /\ out.self = s3
       /\ Len(keys) = Len(paths)
       /\ \A i \in DOMAIN keys :
            /\ keys[i] = out.self.prefix \o WithoutLeadingSlashes(paths[i])
            /\ IsPrefix(out.self.prefix, keys[i])
            /\ out.self.prefix = <<>> => keys[i] = WithoutLeadingSlashes(paths[i])

C21_Witness ==
  /\ out.call = "move" /\ ~out.raised
  /\ out.self.prefix = Chars("d/")
  /\ out.args = <<Chars("//a"), Chars("/b")>>
  /\ KeysSent(out.issued) = <<Chars("d/a"), Chars("d/b"), Chars("d/a")>>

\* the key a path stands for in the S3 object o was called on
KeyFor(o, path) == o.self.prefix \o WithoutLeadingSlashes(path)

\* C22: a move(original, new) that returns leaves at the key of new the
\* content the key of original held before the call, also when both paths
\* resolve to one key, and leaves nothing at the key of original when the two
\* keys differ; the copy comes before the delete and a copy that raises is
\* followed by no delete.
C22_MoveKeepsContent ==
  [][out'.call = "move" =>
       LET original_key == KeyFor(out', out'.args[1])
           new_key      == KeyFor(out', out'.args[2])
       IN /\ out'.issued[1].op = "copy_object"
          /\ out'.issued[1].raised => Len(out'.issued) = 1
          /\ Len(out'.issued) = 2 => out'.issued[2].op = "delete_object"
          /\ ~out'.raised =>
               /\ original_key \in DOMAIN objects
               /\ new_key \in DOMAIN objects'
               /\ objects'[new_key] = objects[original_key]
               /\ original_key # new_key => original_key \notin DOMAIN objects']_vars

(***************************************************************************)
(* Text streaming: every short text over a letter, the newline and a       *)
(* three-byte character, delivered in every way chunks can cut it          *)
(***************************************************************************)
MaxText == 3

TextAlphabet == {"a", "\n", Euro}

Texts == StringsUpTo(TextAlphabet, MaxText)

\* bodies that are not UTF-8: a byte that cannot occur after a full line, a
\* character cut short at the end of the body
BrokenBodies == {<<97, 10, 255>>, <<10, 226, 130>>}

Encoded == [t \in Texts |-> Utf8Encode(t)]

InitText ==
  /\ IdleRenderer
  /\ instance = NoInstance /\ calls = <<>> /\ out = NoOutcome
  /\ IdleAccount
  /\ s3 = S3Init(DefaultBucket, None, None, None, None)
  /\ objects \in {Put(NoObjects, Chars("a"), body) :
                    body \in {Encoded[t] : t \in Texts} \cup BrokenBodies}
  /\ frame = NoFrame

SpecText == InitText /\ [][NextStream]_vars

\* a generator is running, or has run, on a body that get_object returned
Streaming == frame.call = "stream_lines" /\ ~out.raised

\* content.split('\n') with one final empty element removed
SplitLines(content) ==
  LET parts == Lines(content)
  IN IF parts[Len(parts)] = <<>> THEN SubSeq(parts, 1, Len(parts) - 1) ELSE parts

\* C23: for a body that is the UTF-8 of content, stream_lines raises nothing
\* and, when it has returned, has yielded content.split('\n') without one
\* final empty element: nothing for an empty object, no empty last line after
\* a trailing newline, the last line when it has no newline, the empty lines
\* in the middle as empty strings; no yielded line holds a newline, and what
\* is yielded before the end is a prefix of that sequence.
C23_StreamLinesIsSplit ==
  Streaming =>
    \A content \in Texts :
      Encoded[content] = frame.bytes =>
        /\ frame.pc # "raised"
        /\ \A i \in DOMAIN frame.yielded : "\n" \notin Range(frame.yielded[i])
        /\ IsPrefix(frame.yielded, SplitLines(content))
        /\ frame.pc = "done" => frame.yielded = SplitLines(content)
        /\ (frame.pc = "done" /\ content = <<>>) => frame.yielded = <<>>

C23_Witness ==
  /\ Streaming /\ frame.pc = "done"
  /\ frame.bytes = Utf8Encode(<<"\n", Euro, "\n">>)
  /\ frame.yielded = <<<<>>, <<Euro>>>>
  /\ Len(frame.chunks) = 3

\* the generator run on from f for as long as buffer holds a newline
RECURSIVE Drain(_)
Drain(f) == IF "\n" \in Range(f.buffer) THEN Drain(StreamYield(f)) ELSE f

\* the generator run to its end on a body that arrives as one chunk
InOneChunk(bytes) ==
  LET read == StreamRead(StreamFrame("chunks", bytes, bytes, <<>>, <<>>, <<>>, <<>>),
                         Len(bytes))
  IN IF read.pc = "raised" THEN read ELSE StreamFinish(Drain(read))

\* the generator has come to its end, by returning or by raising
Ended == Streaming /\ frame.pc \in {"done", "raised"}

\* C27 as claimed: however the bytes of the body are cut into chunks, the
\* generator yields the lines it yields when the body arrives as one chunk,
\* each once and in order.
C27_ChunkingChangesNothing ==
  Ended => frame.yielded = InOneChunk(frame.bytes).yielded

\* C27 (amended): the same for a body that is UTF-8: no cut makes the
\* generator raise, what it has yielded is at any moment a prefix of the lines
\* of the one-chunk run, and all of them when it returns.  On a body that is
\* not UTF-8 the generator raises however the body is cut, but the lines it
\* yields before that depend on the cuts.
C27_ChunkingChangesNothingForUtf8 ==
  Streaming =>
    LET one == InOneChunk(frame.bytes)
    IN /\ one.pc = "done" =>
            /\ frame.pc # "raised"
            /\ IsPrefix(frame.yielded, one.yielded)
            /\ frame.pc = "done" => frame.yielded = one.yielded
       /\ one.pc = "raised" => frame.pc # "done"

C27_Witness ==
  /\ Ended /\ frame.pc = "done"
  /\ frame.bytes = Utf8Encode(<<Euro, "\n", "a">>)
  /\ frame.chunks = <<<<226>>, <<130, 172>>, <<10, 97>>>>
  /\ frame.yielded = <<<<Euro>>, <<"a">>>>

(***************************************************************************)
(* AntokelAws: explicit arguments against the environment                  *)
(***************************************************************************)
\* what the environment holds under each name when it is set and not empty
EnvironValue ==
  [n \in EnvironNames |->
     CASE n = AWS_REGION -> Chars("us-east-1")
       [] n = AWS_DEFAULT_REGION -> Chars("eu-west-1")
       [] n = AWS_ACCESS_KEY_ID -> Chars("AKIA-env")
       [] OTHER -> Chars("secret-env")]

\* each variable is not set, set to the empty string, or set to its value
Environs ==
  {[n \in EnvironNames |-> IF n \in unset THEN None
                           ELSE IF n \in empty THEN Some(<<>>) ELSE Some(EnvironValue[n])] :
     unset \in SUBSET EnvironNames, empty \in SUBSET EnvironNames}

\* an argument is left out (None), the empty string, or a value
Argument(text) == {None, Some(<<>>), Some(Chars(text))}

\* AntokelAws(...) is called once
NewAntokelAws ==
  /\ out.call = "none"
  /\ \E region \in Argument("ap-south-1"), access_key \in Argument("AKIA-arg"),
        secret_key \in Argument("secret-arg") :
       /\ out' = AntokelAwsCall(region, access_key, secret_key, environ)
       /\ aws' = out'.value
  /\ UNCHANGED <<fleet, sessions, ret, prev, instance, calls, environ, s3Vars, pageVars>>

AwsS3 ==
  /\ out.call # "none"
  /\ \E prefix \in {None, Some(Chars("d"))} :
       /\ out' = AwsS3Call(aws, DefaultBucket, prefix)
       /\ s3' = out'.value
  /\ UNCHANGED <<fleet, sessions, ret, prev, instance, calls, awsVars, objects, pageVars>>

\* the EC2 object made takes the place of EC2 object 1
AwsEc2 ==
  /\ out.call # "none"
  /\ out' = AwsEc2Call(aws)
  /\ sessions' = [sessions EXCEPT ![1] = out'.value]
  /\ UNCHANGED <<fleet, ret, prev, instance, calls, awsVars, s3Vars, pageVars>>

NextAws == NewAntokelAws \/ AwsS3 \/ AwsEc2

InitAws ==
  /\ IdleRenderer
  /\ instance = NoInstance /\ calls = <<>> /\ out = NoOutcome
  /\ aws = AwsRuntimeCredentials(None, None, None)
  /\ environ \in Environs
  /\ s3 = S3Init(DefaultBucket, None, None, None, None)
  /\ objects = NoObjects
  /\ listing = <<>>
  /\ frame = NoFrame

SpecAws == InitAws /\ [][NextAws]_vars

\* the S3 or EC2 constructor received the three attributes of the AntokelAws
\* object, and the object made keeps them
FactoryPassesAttributes ==
  out.call \in {"S3", "EC2"} =>
    /\ out.self = aws
    /\ Len(out.issued) = 1
    /\ out.issued[1].params.region = aws.region
    /\ out.issued[1].params.access_key = aws.access_key
    /\ out.issued[1].params.secret_key = aws.secret_key
    /\ out.call = "EC2" => sessions[1] = aws

\* C24 as claimed: an argument other than None becomes the attribute whatever
\* the environment holds; for an argument of None the attribute is the
\* environment's value, AWS_DEFAULT_REGION being looked at only when
\* AWS_REGION is not set; the S3 and EC2 objects the factories make receive
\* these three values.
C24_ArgumentThenEnvironment ==
  /\ out.call = "AntokelAws" =>
       LET env == out.self
       IN /\ aws = out.value
          /\ aws.region =
               IF out.args[1].some THEN out.args[1]
               ELSE IF env[AWS_REGION].some THEN env[AWS_REGION]
               ELSE env[AWS_DEFAULT_REGION]
          /\ aws.access_key =
               IF out.args[2].some THEN out.args[2] ELSE env[AWS_ACCESS_KEY_ID]
          /\ aws.secret_key =
               IF out.args[3].some THEN out.args[3] ELSE env[AWS_SECRET_ACCESS_KEY]
  /\ FactoryPassesAttributes

\* given and not the empty string
NonEmpty(o) == o.some /\ Len(o.v) > 0

\* C24 (amended): the same with "passed" and "set" meaning given and not
\* empty: an argument of None or "" gives way to the environment, and an
\* AWS_REGION that is unset or empty gives way to AWS_DEFAULT_REGION; when
\* nothing is non-empty the attribute is the last value looked at, None or "".
C24_NonEmptyArgumentThenEnvironment ==
  /\ out.call = "AntokelAws" =>
       LET env == out.self
       IN /\ aws = out.value
          /\ aws.region =
               IF NonEmpty(out.args[1]) THEN out.args[1]
               ELSE IF NonEmpty(env[AWS_REGION]) THEN env[AWS_REGION]
               ELSE env[AWS_DEFAULT_REGION]
          /\ aws.access_key =
               IF NonEmpty(out.args[2]) THEN out.args[2] ELSE env[AWS_ACCESS_KEY_ID]
          /\ aws.secret_key =
               IF NonEmpty(out.args[3]) THEN out.args[3] ELSE env[AWS_SECRET_ACCESS_KEY]
  /\ FactoryPassesAttributes

C24_Witness ==
  /\ out.call = "EC2"
  /\ environ[AWS_REGION] = None
  /\ environ[AWS_DEFAULT_REGION] = Some(Chars("eu-west-1"))
  /\ environ[AWS_ACCESS_KEY_ID] = Some(Chars("AKIA-env"))
  /\ sessions[1].region = Some(Chars("eu-west-1"))
  /\ sessions[1].access_key = Some(Chars("AKIA-arg"))
  /\ sessions[1].secret_key = None
  /\ s3.client = <<[k |-> Chars("region_name"), v |-> Chars("eu-west-1")],
                   [k |-> Chars("aws_access_key_id"), v |-> Chars("AKIA-arg")]>>

(***************************************************************************)
(* Instance.create with storage                                            *)
(***************************************************************************)
MaxStorage == 6

\* a volume restored from a snapshot and a new one
StorageVolumes ==
  {Volume(Some(Chars("snap-abc123")), DefaultGib, "gp3"), Volume(None, 1, "gp2")}

\* storage: Optional[List[Volume]], left out or a list of up to MaxStorage
Storages ==
  {None} \cup {Some(l) : l \in UNION {[1..n -> StorageVolumes] : n \in 0..MaxStorage}}

InitStorage ==
  /\ IdleRenderer
  /\ instance \in {Instance(1, None, None, Some(Chars("t4g.micro")), "on-demand",
                            Some(Chars("my-keypair")), None, None, storage, NoUserData) :
                     storage \in Storages}
  /\ calls = <<>>
  /\ out = NoOutcome
  /\ IdleAws

SpecStorage == InitStorage /\ [][NextInstance]_vars

\* the five device names, in the order of the claim
XvdNames == <<"/dev/xvda", "/dev/xvdb", "/dev/xvdc", "/dev/xvdd", "/dev/xvde">>

\* C30: when create() calls run_instances, the volume at position i of
\* storage is mapped to the i-th of /dev/xvda .. /dev/xvde, so the device
\* names of BlockDeviceMappings are pairwise distinct and in storage order;
\* volumes at position 5 or later are left out and raise nothing, and with an
\* empty storage list no BlockDeviceMappings parameter is sent.
C30_StorageDevices ==
  (out.call = "create" /\ out.issued # <<>>) =>
    LET storage == out.self.storage
        params  == out.issued[1].params
        sent    == params.BlockDeviceMappings
    IN /\ out.issued[1].op = "run_instances"
       /\ out.raised = out.issued[1].raised
       /\ storage = <<>> <=> "BlockDeviceMappings" \notin DOMAIN params
       /\ storage # <<>> =>
            /\ Len(sent) = (IF Len(storage) < 5 THEN Len(storage) ELSE 5)
            /\ \A i \in DOMAIN sent :
                 /\ sent[i] = BlockDeviceMapping(storage[i], Chars(XvdNames[i]))
                 /\ \A j \in DOMAIN sent : i # j => sent[i].DeviceName # sent[j].DeviceName

C30_Witness ==
  /\ out.call = "create" /\ ~out.raised
  /\ Len(out.self.storage) = 6
  /\ Len(out.issued) = 1
  /\ Len(out.issued[1].params.BlockDeviceMappings) = 5
  /\ out.issued[1].params.BlockDeviceMappings[5].DeviceName = Chars("/dev/xvde")
  /\ out.issued[1].params.BlockDeviceMappings[5].Ebs.VolumeType = "gp2"
  /\ out.self.storage[6].mode = "gp3"

(***************************************************************************)
(* The bound session: bind, the factory, and changes of the credentials    *)
(***************************************************************************)
\* the values the attributes of each EC2 object take, no two alike
SessionValues(e) ==
  IF e = 1
  THEN AwsRuntimeCredentials(Chars("us-east-1"), Chars("AKIA1"), Chars("sk1"))
  ELSE AwsRuntimeCredentials(Chars("eu-west-1"), Chars("AKIA2"), Chars("sk2"))

\* the attributes that are assigned to: the region of both EC2 objects, the
\* access key of the first and the secret key of the second
Assigned(e) == IF e = 1 THEN {"region", "access_key"} ELSE {"region", "secret_key"}

\* an attribute that is assigned to is None or holds its value
SessionContexts(e) ==
  {c \in [{"region", "access_key", "secret_key"} ->
            {None} \cup {Some(SessionValues(e)[f]) : f \in {"region", "access_key", "secret_key"}}] :
     \A f \in DOMAIN c :
       /\ c[f] \in {None, Some(SessionValues(e)[f])}
       /\ f \notin Assigned(e) => c[f] # None}

\* ec2.user_data
UserDataFactory(e) == [ec2 |-> e]

\* the factory passing no ec2
FactoryContainerFleet_Unbound(self, ecr) ==
  ContainerFleet(ecr, "amazon_linux", None, <<>>, DefaultTag, TRUE, NoEc2)

\* ec2.user_data.ContainerFleet(ecr): the arguments and ec2=self._ec2
FactoryContainerFleet(self, ecr) ==
  ContainerFleet(ecr, "amazon_linux", None, <<>>, DefaultTag, TRUE, self.ec2)

\* user_data.bind(ec2)
BindTo ==
  /\ \E e \in Ec2Ids :
       /\ fleet' = Bind(fleet, e)
       /\ out' = Outcome("bind", fleet, <<e>>, FALSE, NoError, fleet', <<>>)
  /\ UNCHANGED <<sessions, ret, prev, instance, calls, awsVars, s3Vars, pageVars>>

\* ec2.user_data.ContainerFleet(...) on one of the EC2 objects
MakeFleet ==
  /\ \E e \in Ec2Ids :
       /\ fleet' = FactoryContainerFleet(UserDataFactory(e), DefaultEcr)
       /\ out' = Outcome("ContainerFleet", UserDataFactory(e), <<DefaultEcr>>, FALSE, NoError, fleet', <<>>)
  /\ UNCHANGED <<sessions, ret, prev, instance, calls, awsVars, s3Vars, pageVars>>

\* an assignment to ec2.region, ec2.access_key or ec2.secret_key
SetCredentials ==
  /\ \E e \in Ec2Ids : \E c \in SessionContexts(e) :
       /\ Cardinality({f \in {"region", "access_key", "secret_key"} :
                         c[f] # sessions[e][f]}) = 1
       /\ sessions' = [sessions EXCEPT ![e] = c]
  /\ UNCHANGED <<fleet, ret, prev, instance, calls, out, awsVars, s3Vars, pageVars>>

NextBind == Render \/ BindTo \/ MakeFleet \/ SetCredentials

InitBind ==
  /\ fleet \in {ContainerFleet(DefaultEcr, "amazon_linux", None, <<>>, DefaultTag, TRUE, e) :
                  e \in {NoEc2} \cup Ec2Ids}
  /\ sessions \in [Ec2Ids -> UNION {SessionContexts(e) : e \in Ec2Ids}]
  /\ \A e \in Ec2Ids : sessions[e] \in SessionContexts(e)
  /\ ret = NoCall
  /\ prev = NoCall
  /\ IdleEc2

SpecBind == InitBind /\ [][NextBind]_vars

\* the EC2 object the renderer was given last: by bind, by the factory, or at
\* construction
Bound ==
  IF out.call = "bind" THEN out.args[1]
  ELSE IF out.call = "ContainerFleet" THEN out.self.ec2
  ELSE fleet.ec2

\* what the attributes of the session given last hold at this moment
HeldNow == IF Bound = NoEc2 THEN NoCreds ELSE sessions[Bound]

\* every value an attribute of some session can hold
AllSessionValues ==
  UNION {{SessionValues(e).region, SessionValues(e).access_key, SessionValues(e).secret_key} :
           e \in Ec2Ids}

\* the call that returned r used the values held now, all of them and no other
UsesHeldNow(r) ==
  /\ ~r.raised
  /\ r.locals.region = OrEmpty(HeldNow.region)
  /\ r.locals.access = OrEmpty(HeldNow.access_key)
  /\ r.locals.secret = OrEmpty(HeldNow.secret_key)
  /\ \A v \in AllSessionValues :
       Contains(r.value, v) <=>
         \E f \in {"region", "access_key", "secret_key"} : HeldNow[f] = Some(v)

\* C29: in any sequence of bind(), assignments to a session's region or keys,
\* and render() calls, each render uses exactly the values the
\* session bound last holds at that moment: with no session all three are
\* absent, and no value of an earlier bound session or an earlier value of
\* this one is in the output.  bind(e) returns the renderer bound to e, and a
\* renderer made by ec2.user_data.ContainerFleet is bound to that ec2.
C29_CredentialsReadAtRender ==
  /\ [][Render => UsesHeldNow(ret')]_vars
  /\ [](out.call = "bind" => (out.value = fleet /\ fleet.ec2 = out.args[1]))
  /\ [](out.call = "ContainerFleet" => fleet.ec2 = out.self.ec2)

C29_Witness ==
  /\ out.call = "bind" /\ out.args = <<2>> /\ out.self.ec2 = 1
  /\ prev.call = "render" /\ Contains(prev.value, Chars("us-east-1"))
  /\ ret.call = "render"
  /\ Contains(ret.value, Chars("eu-west-1")) /\ Contains(ret.value, Chars("AKIA2"))
  /\ ~Contains(ret.value, Chars("us-east-1")) /\ ~Contains(ret.value, Chars("AKIA1"))
  /\ sessions[1].region = Some(Chars("us-east-1"))
  /\ sessions[2].secret_key = None

(***************************************************************************)
(* EC2.find_by_name                                                        *)
(***************************************************************************)
\* one character of a pattern against one of the text: "." is any character
MatchChar(p, c) == p = "." \/ p = c

\* the pattern matches some text that begins where `text` begins: literals,
\* ".", a trailing "$", and "*" or "+" after one character
RECURSIVE MatchHere(_, _)
MatchHere(re, text) ==
  IF re = <<>> THEN TRUE
  ELSE IF Len(re) >= 2 /\ re[2] \in {"*", "+"}
  THEN \E k \in (IF re[2] = "+" THEN 1 ELSE 0)..Len(text) :
         /\ \A i \in 1..k : MatchChar(re[1], text[i])
         /\ MatchHere(SubSeq(re, 3, Len(re)), SubSeq(text, k + 1, Len(text)))
  ELSE IF re = <<"$">> THEN text = <<>>
  ELSE text # <<>> /\ MatchChar(re[1], text[1]) /\ MatchHere(Tail(re), Tail(text))

\* pattern.match(name): a match at the beginning of the name only
Search_Match(re, text) ==
  MatchHere(IF re # <<>> /\ re[1] = "^" THEN Tail(re) ELSE re, text)

\* pattern.search(name) is not None
Search(re, text) ==
  IF re # <<>> /\ re[1] = "^" THEN MatchHere(Tail(re), text)
  ELSE \E i \in 0..Len(text) : MatchHere(re, SubSeq(text, i + 1, Len(text)))

Tag(key, value) == [Key |-> Chars(key), Value |-> Chars(value)]

\* one instance of a describe_instances response; Tags may be missing
Described(id, tags) == [InstanceId |-> Chars(id), Tags |-> tags]

\* inst.get("Tags", []) or []
TagsOf(inst) == IF inst.Tags.some THEN inst.Tags.v ELSE <<>>

\* the value of the first tag whose Key is "Name", None without one
NameOf(inst) ==
  LET named == SelectSeq(TagsOf(inst), LAMBDA t : t.Key = Chars("Name"))
  IN IF named = <<>> THEN None ELSE Some(named[1].Value)

\* self.Instance(id=inst.get("InstanceId"), name=name)
Found(inst, name) ==
  Instance(1, Some(inst.InstanceId), Some(name), None, "on-demand", None, None, None, None,
           NoUserData)

\* the inner loop over the instances of one reservation
RECURSIVE MatchesIn(_, _)
MatchesIn(pattern, insts) ==
  IF insts = <<>> THEN <<>>
  ELSE LET name == NameOf(Head(insts))
       IN (IF Truthy(name) /\ Search(pattern, name.v)
           THEN <<Found(Head(insts), name.v)>> ELSE <<>>)
          \o MatchesIn(pattern, Tail(insts))

\* the loop over resp.get("Reservations", []) and reservation.get("Instances", [])
RECURSIVE PageMatches(_, _)
PageMatches(pattern, reservations) ==
  IF reservations = <<>> THEN <<>>
  ELSE MatchesIn(pattern, IF Head(reservations).Instances.some
                          THEN Head(reservations).Instances.v ELSE <<>>)
       \o PageMatches(pattern, Tail(reservations))

\* the tokens of the pages after the first
Tokens == <<"", "page-2", "page-3", "page-4", "page-5">>

TokenOf(i) == Chars(Tokens[i])

NoKwargs == <<>>

\* what the client answers to describe_instances(**kwargs): the first page, or
\* the page the token stands for
DescribeInstances(pages, kwargs) ==
  IF "NextToken" \notin DOMAIN kwargs THEN pages[1]
  ELSE pages[CHOOSE i \in DOMAIN pages : i > 1 /\ TokenOf(i) = kwargs.NextToken]

\* find_by_name at the top of its `while True:`, or after it returned or raised
FindFrame(pc, pattern, matches, next_token) ==
  [call |-> "find_by_name", pc |-> pc, pattern |-> pattern, matches |-> matches,
   next_token |-> next_token]

\* find_by_name up to its loop
FindByNameCall(regex) == FindFrame("loop", regex, <<>>, None)

\* one pass of the loop, when describe_instances answers (ok) or raises (~ok):
\* the frame after it and the client call
DescribeStep(f, pages, ok) ==
  LET kwargs == IF Truthy(f.next_token) THEN [NextToken |-> f.next_token.v] ELSE NoKwargs
      resp   == DescribeInstances(pages, kwargs)
      found  == f.matches \o PageMatches(f.pattern, IF resp.Reservations.some
                                                    THEN resp.Reservations.v ELSE <<>>)
  IN IF ~ok
     THEN [frame |-> FindFrame("raised", f.pattern, f.matches, f.next_token),
           issued |-> ClientCall("describe_instances", kwargs, TRUE, <<>>)]
     ELSE [frame |-> FindFrame(IF Truthy(resp.NextToken) THEN "loop" ELSE "done",
                               f.pattern, found, resp.NextToken),
           issued |-> ClientCall("describe_instances", kwargs, FALSE, resp)]

MaxPages == 2

\* the instances of the listings: without Tags, with tags but no Name, with an
\* empty Name, and three with names
Untagged == Described("i-0", None)

Unnamed == Described("i-1", Some(<<Tag("env", "web-")>>))

EmptyName == Described("i-2", Some(<<Tag("Name", "")>>))

Named(id, name) == Described(id, Some(<<Tag("env", "db"), Tag("Name", name)>>))

Reservation(insts) == [Instances |-> Some(insts)]

\* what a page holds: nothing, one instance, or several in one or two reservations
PageContents ==
  {None, Some(<<>>), Some(<<[Instances |-> None], Reservation(<<Named("i-5", "db")>>)>>)}
    \cup {Some(<<Reservation(<<i>>)>>) :
            i \in {Untagged, Unnamed, EmptyName, Named("i-3", "web-"), Named("i-4", "xweb-1"),
                   Named("i-5", "db")}}
    \cup {Some(<<Reservation(<<Named("i-3", "web-"), Untagged>>),
                 Reservation(<<Named("i-5", "db"), Named("i-4", "xweb-1")>>)>>),
          Some(<<Reservation(<<Named("i-4", "xweb-1"), EmptyName, Named("i-3", "web-")>>)>>)}

\* the listings of 1..MaxPages pages: every page but the last names the next
Listings ==
  UNION {{[i \in 1..n |-> [Reservations |-> c[i],
                           NextToken |-> IF i < n THEN Some(TokenOf(i + 1)) ELSE None]] :
            c \in [1..n -> PageContents]} : n \in 1..MaxPages}

\* the patterns: a literal, anchored at the start, anchored at the end, and
\* the docstring's 'name-.+'
Regexes == {Chars("web"), Chars("^web"), Chars("b$"), Chars("web-.+")}

FindByName ==
  /\ frame = NoFrame
  /\ \E regex \in Regexes : frame' = FindByNameCall(regex)
  /\ UNCHANGED <<fleet, sessions, ret, prev, instance, calls, out, awsVars, s3Vars, listing>>

DescribePage ==
  /\ frame.call = "find_by_name" /\ frame.pc = "loop"
  /\ \E ok \in BOOLEAN :
       LET r == DescribeStep(frame, listing, ok)
       IN /\ frame' = r.frame
          /\ calls' = Append(calls, r.issued)
          /\ out' = IF r.frame.pc = "loop" THEN out
                    ELSE Outcome("find_by_name", [ec2 |-> 1], <<frame.pattern>>, ~ok,
                                 IF ok THEN NoError ELSE ClientError,
                                 IF ok THEN r.frame.matches ELSE <<>>, calls')
  /\ UNCHANGED <<fleet, sessions, ret, prev, instance, awsVars, s3Vars, listing>>

NextFind == FindByName \/ DescribePage

InitFind ==
  /\ IdleRenderer
  /\ instance = NoInstance /\ calls = <<>> /\ out = NoOutcome
  /\ aws = AwsRuntimeCredentials(None, None, None)
  /\ environ = NoEnviron
  /\ s3 = S3Init(DefaultBucket, None, None, None, None)
  /\ objects = NoObjects
  /\ listing \in Listings
  /\ frame = NoFrame

\* the loop goes on whenever the client has answered
SpecFind == InitFind /\ [][NextFind]_vars /\ WF_vars(DescribePage)

\* what each pattern of Regexes means for a name
Means(regex, name) ==
  CASE regex = Chars("web") -> Contains(name, Chars("web"))
    [] regex = Chars("^web") -> IsPrefix(Chars("web"), name)
    [] regex = Chars("b$") -> EndsWith(name, Chars("b"))
    [] regex = Chars("web-.+") ->
         \E i \in 1..(Len(name) - 4) : SubSeq(name, i, i + 3) = Chars("web-")

\* all instances of the listing, page after page
RECURSIVE Listed(_)
Listed(pages) ==
  IF pages = <<>> THEN <<>>
  ELSE LET rs == IF Head(pages).Reservations.some THEN Head(pages).Reservations.v ELSE <<>>
           RECURSIVE All(_)
           All(l) == IF l = <<>> THEN <<>>
                     ELSE (IF Head(l).Instances.some THEN Head(l).Instances.v ELSE <<>>)
                          \o All(Tail(l))
       IN All(rs) \o Listed(Tail(pages))

\* the instance has a Name tag with a value that is not empty
HasName(inst) ==
  /\ inst.Tags.some
  /\ \E i \in DOMAIN inst.Tags.v :
       inst.Tags.v[i].Key = Chars("Name") /\ inst.Tags.v[i].Value # <<>>

NameValue(inst) ==
  inst.Tags.v[CHOOSE i \in DOMAIN inst.Tags.v : inst.Tags.v[i].Key = Chars("Name")].Value

\* the calls so far are one per page, from the first page on, each after the
\* first carrying the NextToken of the response before it
OnePerPage ==
  /\ Len(calls) <= Len(listing)
  /\ \A i \in DOMAIN calls :
       /\ calls[i].op = "describe_instances"
       /\ i = 1 => calls[i].params = NoKwargs
       /\ i > 1 => /\ DOMAIN calls[i].params = {"NextToken"}
                   /\ Some(calls[i].params.NextToken) = calls[i - 1].response.NextToken
       /\ ~calls[i].raised => calls[i].response = listing[i]
       /\ i < Len(calls) => ~calls[i].raised /\ calls[i].response.NextToken.some

\* when find_by_name has returned it has called once for each page, the last
\* response had no NextToken, and the result is the instances of all pages, in
\* page order, that have a Name and whose name the regex means
PagesAndMatches ==
  /\ frame # NoFrame => OnePerPage
  /\ (frame # NoFrame /\ frame.pc = "done") =>
       /\ Len(calls) = Len(listing)
       /\ ~calls[Len(calls)].response.NextToken.some
       /\ out.call = "find_by_name" /\ ~out.raised
       /\ out.value =
            LET hits == SelectSeq(Listed(listing),
                                  LAMBDA i : HasName(i) /\ Means(frame.pattern, NameValue(i)))
            IN [k \in DOMAIN hits |->
                  [NoInstance EXCEPT !.id = Some(hits[k].InstanceId),
                                     !.name = Some(NameValue(hits[k]))]]

\* C28: find_by_name calls describe_instances once per page, the first call
\* with no NextToken and each later one with the NextToken of the response
\* before it, and stops at the first response without one, so for every
\* listing it returns (or raises what the client raised); what it returns is
\* exactly the instances of all pages, in page order, whose Name tag value is
\* not empty and is matched by the regex anywhere in the name, each with its
\* id and name; instances without a Name tag are skipped.
C28_OncePerPageThenMatches ==
  /\ []PagesAndMatches
  /\ (frame # NoFrame) ~> (frame # NoFrame /\ frame.pc \in {"done", "raised"})

C28_Witness ==
  /\ frame # NoFrame /\ frame.pc = "done"
  /\ frame.pattern = Chars("web")
  /\ Len(calls) = 2
  /\ calls[2].params = [NextToken |-> Chars("page-2")]
  /\ Len(listing[1].Reservations.v) = 2
  /\ Len(out.value) = 3
  /\ out.value[1].name = Some(Chars("web-")) /\ out.value[1].id = Some(Chars("i-3"))
  /\ out.value[2].name = Some(Chars("xweb-1"))
  /\ out.value[3].name = Some(Chars("xweb-1"))


====
